---------------------------- MODULE Spec2Model ----------------------------
(***************************************************************************)
(* Model of the collection tree index of src/collection/collectionmodel.cpp *)
(* (CollectionModel): the tree of containers, dividers and song leaves, its *)
(* lookup tables, the update queue drained by timer_update_, and the pure   *)
(* key / display-text / sort-text functions.                                *)
(*                                                                          *)
(* A QString is a sequence of UTF-16 code units (naturals); QString         *)
(* comparison is the lexicographic order of those sequences.  A            *)
(* CollectionItem* is a natural (NULL is 0); a freed address may be handed  *)
(* out again by a later allocation.                                         *)
(***************************************************************************)
EXTENDS Integers, Sequences, FiniteSets, TLC

VARIABLES
  root_,                 \* CollectionItem *root_
  items,                 \* the heap: address -> CollectionItem
  songs_,                \* QMap<int, Song> songs_
  song_nodes_,           \* QMap<int, CollectionItem*> song_nodes_
  container_nodes_,      \* QMap<QString, CollectionItem*> container_nodes_[3]
  divider_nodes_,        \* QMap<QString, CollectionItem*> divider_nodes_
  pending_art_,          \* QMap<quint64, ItemAndCacheKey> pending_art_
  pending_cache_keys_,   \* QSet<QString> pending_cache_keys_
  pixmap_cache,          \* QPixmapCache: the pixmap held under each key
  sIconCache,            \* keys held by the QNetworkDiskCache sIconCache
  updates_,              \* QQueue<CollectionModelUpdate> updates_
  timer_update_,         \* timer_update_->isActive()
  group_by_,             \* Grouping group_by_
  separate_albums_by_grouping_,
  show_dividers_,
  sort_skips_articles_,
  filter_options_,       \* CollectionFilterOptions filter_options_
  app_,                  \* Application *app_ is not null
  use_pretty_covers_,
  use_disk_cache_,
  init_task_id_,         \* int init_task_id_ (-1: none)
  task_manager,          \* app_->task_manager(): the tasks started and not finished
  album_cover_loader,    \* app_->album_cover_loader(): the requests of this model in flight
  timer_reset_,          \* timer_reset_: milliseconds left until it fires (0: not active)
  watchers,              \* the QFutureWatchers of the reload queries in flight
  db,                    \* the songs table of the backend: id -> Song
  emitted,               \* model signals emitted by the step just taken
  last,                  \* the call made by the step just taken
  reported               \* the last SongsChanged report, while no other report followed

treevars == <<root_, items, songs_, song_nodes_, container_nodes_, divider_nodes_,
              pending_art_, pending_cache_keys_, pixmap_cache, sIconCache>>
confvars == <<group_by_, separate_albums_by_grouping_, show_dividers_,
              sort_skips_articles_, filter_options_>>
loadvars == <<timer_reset_, watchers, db>>
appvars == <<app_, use_pretty_covers_, use_disk_cache_, init_task_id_, task_manager,
             album_cover_loader>>
vars == <<treevars, confvars, loadvars, appvars, updates_, timer_update_, emitted, last,
          reported>>

----------------------------------------------------------------------------
(* QString and QChar primitives *)

\* nullptr
NULL == 0

\* QString::operator< : code unit by code unit, a proper prefix sorts first
RECURSIVE StrLess(_, _)
StrLess(a, b) ==
  IF b = <<>> THEN FALSE
  ELSE IF a = <<>> THEN TRUE
  ELSE IF Head(a) # Head(b) THEN Head(a) < Head(b)
  ELSE StrLess(Tail(a), Tail(b))

\* QString::startsWith
StartsWith(s, p) == Len(p) <= Len(s) /\ SubSeq(s, 1, Len(p)) = p

\* QString::contains
StrContains(s, p) ==
  \E i \in 1..(Len(s) + 1) : i + Len(p) - 1 <= Len(s) /\ SubSeq(s, i, i + Len(p) - 1) = p

\* QChar::isDigit, for the ASCII digits
IsDigit(c) == c >= 48 /\ c <= 57

\* QChar::isSpace, for the space and the ASCII control whitespace
IsSpace(c) == c = 32 \/ (c >= 9 /\ c <= 13)

\* QChar::toLower on ASCII and Latin-1 letters
ToLowerChar(c) ==
  IF (c >= 65 /\ c <= 90) \/ (c >= 192 /\ c <= 222 /\ c # 215) THEN c + 32 ELSE c

\* QString::toLower
ToLower(s) == [i \in 1..Len(s) |-> ToLowerChar(s[i])]

\* QChar::toUpper / QString::toUpper on ASCII and Latin-1 letters
ToUpperChar(c) ==
  IF (c >= 97 /\ c <= 122) \/ (c >= 224 /\ c <= 254 /\ c # 247) THEN c - 32 ELSE c

ToUpper(s) == [i \in 1..Len(s) |-> ToUpperChar(s[i])]

\* \w of QRegularExpression with UseUnicodePropertiesOption: letters, digits, underscore
IsWordChar(c) ==
  \/ IsDigit(c)
  \/ (c >= 65 /\ c <= 90)
  \/ (c >= 97 /\ c <= 122)
  \/ c = 95
  \/ (c >= 192 /\ c <= 255 /\ c # 215 /\ c # 247)

\* QChar::decompositionTag() != NoDecomposition, and decomposition()[0]:
\* the precomposed Latin-1 letters decompose to their base letter
DecompositionBase(c) ==
  IF c >= 192 /\ c <= 197 THEN 65
  ELSE IF c >= 200 /\ c <= 203 THEN 69
  ELSE IF c >= 224 /\ c <= 229 THEN 97
  ELSE IF c >= 232 /\ c <= 235 THEN 101
  ELSE NULL

\* decimal digits of a natural
RECURSIVE Digits(_)
Digits(n) == IF n < 10 THEN <<48 + n>> ELSE Digits(n \div 10) \o <<48 + (n % 10)>>

\* QString::number(int)
Number(n) == IF n < 0 THEN <<45>> \o Digits(0 - n) ELSE Digits(n)

\* QString("0").repeated(n)
Zeros(n) == [i \in 1..n |-> 48]

\* value of a string of decimal digits
RECURSIVE DigitsValue(_)
DigitsValue(s) ==
  IF s = <<>> THEN 0 ELSE 10 * DigitsValue(SubSeq(s, 1, Len(s) - 1)) + (s[Len(s)] - 48)

\* strips leading and trailing whitespace
RECURSIVE Trimmed(_)
Trimmed(s) ==
  IF s = <<>> THEN s
  ELSE IF IsSpace(Head(s)) THEN Trimmed(Tail(s))
  ELSE IF IsSpace(s[Len(s)]) THEN Trimmed(SubSeq(s, 1, Len(s) - 1))
  ELSE s

\* QString::toInt(): surrounding whitespace is skipped, an optional sign and
\* decimal digits are read, anything else makes the conversion fail with 0
ToInt(s) ==
  LET t == Trimmed(s)
      neg == t # <<>> /\ Head(t) = 45
      body == IF t # <<>> /\ (Head(t) = 45 \/ Head(t) = 43) THEN Tail(t) ELSE t
  IN IF body = <<>> \/ (\E i \in 1..Len(body) : ~IsDigit(body[i])) THEN 0
     ELSE IF neg THEN 0 - DigitsValue(body) ELSE DigitsValue(body)

\* std::max
Max(a, b) == IF a >= b THEN a ELSE b

\* std::min
Min(a, b) == IF a <= b THEN a ELSE b

----------------------------------------------------------------------------
(* Song (core/song.h): the fields the collection model reads *)

\* GroupBy enumerators, in the order of the enum
GroupByValues ==
  <<"None", "AlbumArtist", "Artist", "Album", "AlbumDisc", "YearAlbum", "YearAlbumDisc",
    "OriginalYearAlbum", "OriginalYearAlbumDisc", "Disc", "Year", "OriginalYear", "Genre",
    "Composer", "Performer", "Grouping", "FileType", "Format", "Samplerate", "Bitdepth",
    "Bitrate">>

\* a default-constructed Song: empty strings, -1 for the unset numbers
DefaultSong ==
  [id |-> -1, title |-> <<>>, artist |-> <<>>, albumartist |-> <<>>, album |-> <<>>,
   album_id |-> <<>>, track |-> -1, disc |-> -1, year |-> -1, originalyear |-> -1,
   genre |-> <<>>, composer |-> <<>>, performer |-> <<>>, grouping |-> <<>>,
   filetype |-> "Unknown", samplerate |-> -1, bitdepth |-> -1, bitrate |-> -1,
   compilation |-> FALSE, compilation_detected |-> FALSE, compilation_on |-> FALSE,
   compilation_off |-> FALSE, url |-> <<>>, ctime |-> -1, rating |-> -1, playcount |-> 0,
   editable |-> FALSE]

\* Song::IsEditable(): the record is flagged editable
IsEditable(s) == s.editable

\* Song::effective_albumartist()
effective_albumartist(s) == IF s.albumartist = <<>> THEN s.artist ELSE s.albumartist

\* Song::effective_originalyear()
effective_originalyear(s) == IF s.originalyear < 0 THEN s.year ELSE s.originalyear

\* Song::is_compilation()
is_compilation(s) ==
  (s.compilation \/ s.compilation_detected \/ s.compilation_on) /\ ~s.compilation_off

\* Song::TextForFiletype()
TextForFiletype(s) ==
  CASE s.filetype = "FLAC" -> <<70, 76, 65, 67>>                       \* "FLAC"
    [] s.filetype = "MPEG" -> <<77, 80, 51>>                           \* "MP3"
    [] OTHER -> <<85, 110, 107, 110, 111, 119, 110>>                   \* "Unknown"

\* Song::AlbumContainsDisc(): the album title carries a "(Disc n)" marker
AlbumContainsDisc(album) == StrContains(album, <<40, 68, 105, 115, 99, 32>>)

\* Song::kArticles: "the ", "a ", "an "
kArticles == << <<116, 104, 101, 32>>, <<97, 32>>, <<97, 110, 32>> >>

\* Song::TitleWithCompilationArtist()
TitleWithCompilationArtist(s) ==
  IF is_compilation(s) /\ s.artist # <<>>
     /\ ~StrContains(ToLower(s.artist), <<118, 97, 114, 105, 111, 117, 115>>)
  THEN s.artist \o <<32, 45, 32>> \o s.title
  ELSE s.title

\* CollectionFilterOptions::Matches(): with a maximum age set, a song whose
\* creation time is not after the cutoff is filtered out
kNow == 1000

Matches(filter, s) == filter.max_age = -1 \/ s.ctime > kNow - filter.max_age

----------------------------------------------------------------------------
(* Key / display text / sort text engine *)

\* tr("Various artists")
kVariousArtists == <<86, 97, 114, 105, 111, 117, 115, 32, 97, 114, 116, 105, 115, 116, 115>>

\* tr("Unknown")
kUnknown == <<85, 110, 107, 110, 111, 119, 110>>

IsArtistGroupBy(group_by) == group_by = "Artist" \/ group_by = "AlbumArtist"

IsAlbumGroupBy(group_by) ==
  group_by \in {"Album", "YearAlbum", "AlbumDisc", "YearAlbumDisc", "OriginalYearAlbum",
                "OriginalYearAlbumDisc"}

TextOrUnknown(text) == IF text = <<>> THEN kUnknown ELSE text

PrettyYearAlbum(year, album) ==
  IF year <= 0 THEN TextOrUnknown(album)
  ELSE Number(year) \o <<32, 45, 32>> \o TextOrUnknown(album)

\* " - (Disc " n ")"
DiscSuffix(disc) == <<32, 45, 32, 40, 68, 105, 115, 99, 32>> \o Number(disc) \o <<41>>

PrettyAlbumDisc(album, disc) ==
  IF disc <= 0 \/ AlbumContainsDisc(album) THEN TextOrUnknown(album)
  ELSE TextOrUnknown(album) \o DiscSuffix(disc)

PrettyYearAlbumDisc(year, album, disc) ==
  LET str == IF year <= 0 THEN TextOrUnknown(album)
             ELSE Number(year) \o <<32, 45, 32>> \o TextOrUnknown(album)
  IN IF ~AlbumContainsDisc(album) /\ disc > 0 THEN str \o DiscSuffix(disc) ELSE str

\* "Disc " n
PrettyDisc(disc) == <<68, 105, 115, 99, 32>> \o Number(Max(1, disc))

SortText(text) ==
  LET t == IF text = <<>> THEN <<32, 117, 110, 107, 110, 111, 119, 110>>   \* " unknown"
           ELSE ToLower(text)
  IN SelectSeq(t, LAMBDA c : IsWordChar(c) \/ c = 32)

\* the first article of kArticles, from index i on, that the text starts with (0: none)
RECURSIVE FirstArticle(_, _)
FirstArticle(artist, i) ==
  IF i > Len(kArticles) THEN 0
  ELSE IF StartsWith(artist, kArticles[i]) THEN i
  ELSE FirstArticle(artist, i + 1)

SortTextForArtist(artist, skip_articles) ==
  LET a == SortText(artist)
      k == FirstArticle(a, 1)
  IN IF skip_articles /\ k # 0
     THEN LET i == kArticles[k]
              ilen == Len(i)
          IN SubSeq(a, ilen + 1, Len(a)) \o <<44, 32>> \o SubSeq(i, 1, ilen - 1)
     ELSE a

\* QString("%1").arg(number, 4, 10, QChar('0')): zero padding to width 4,
\* to the right of the sign of a negative number
SortTextForNumber(number) ==
  IF number >= 0 THEN Zeros(Max(0, 4 - Len(Digits(number)))) \o Digits(number)
  ELSE <<45>> \o Zeros(Max(0, 3 - Len(Digits(0 - number)))) \o Digits(0 - number)

SortTextForYear(year) ==
  LET str == Number(year) IN Zeros(Max(0, 4 - Len(str))) \o str

SortTextForBitrate(bitrate) ==
  LET str == Number(bitrate) IN Zeros(Max(0, 3 - Len(str))) \o str

SortTextForSong(song) ==
  LET ret == Number(Max(0, song.disc) * 1000 + Max(0, song.track))
  IN Zeros(Max(0, 6 - Len(ret))) \o ret \o song.url

\* strips the trailing zeros of a fraction
RECURSIVE StripZeros(_)
StripZeros(s) ==
  IF s # <<>> /\ s[Len(s)] = 48 THEN StripZeros(SubSeq(s, 1, Len(s) - 1)) ELSE s

\* QString::number(samplerate / 1000.0, 'G', 5): at most five significant
\* digits, no trailing zeros (sample rates below 10^8 Hz)
NumberKHz(samplerate) ==
  LET ip == samplerate \div 1000
      keep == IF ip = 0 THEN 3 ELSE Min(3, 5 - Len(Digits(ip)))
      unit == IF keep = 3 THEN 1 ELSE IF keep = 2 THEN 10 ELSE IF keep = 1 THEN 100 ELSE 1000
      scaled == (samplerate + (unit \div 2)) \div unit
      per == 1000 \div unit
      frac == Digits(scaled % per)
      fr == StripZeros(Zeros(Max(0, keep - Len(frac))) \o frac)
  IN IF fr = <<>> \/ keep = 0 THEN Digits(scaled \div per)
     ELSE Digits(scaled \div per) \o <<46>> \o fr

\* the "-album_id" and "-grouping" suffixes of the album-like keys
AlbumKeySuffix(separate_albums_by_grouping, song) ==
  (IF song.album_id # <<>> THEN <<45>> \o song.album_id ELSE <<>>)
  \o (IF separate_albums_by_grouping /\ song.grouping # <<>>
      THEN <<45>> \o song.grouping ELSE <<>>)

ContainerKey(group_by, separate_albums_by_grouping, song) ==
  CASE group_by = "AlbumArtist" -> TextOrUnknown(effective_albumartist(song))
    [] group_by = "Artist" -> TextOrUnknown(song.artist)
    [] group_by = "Album" ->
         TextOrUnknown(song.album) \o AlbumKeySuffix(separate_albums_by_grouping, song)
    [] group_by = "AlbumDisc" ->
         PrettyAlbumDisc(song.album, song.disc)
           \o AlbumKeySuffix(separate_albums_by_grouping, song)
    [] group_by = "YearAlbum" ->
         PrettyYearAlbum(song.year, song.album)
           \o AlbumKeySuffix(separate_albums_by_grouping, song)
    [] group_by = "YearAlbumDisc" ->
         PrettyYearAlbumDisc(song.year, song.album, song.disc)
           \o AlbumKeySuffix(separate_albums_by_grouping, song)
    [] group_by = "OriginalYearAlbum" ->
         PrettyYearAlbum(effective_originalyear(song), song.album)
           \o AlbumKeySuffix(separate_albums_by_grouping, song)
    [] group_by = "OriginalYearAlbumDisc" ->
         PrettyYearAlbumDisc(effective_originalyear(song), song.album, song.disc)
           \o AlbumKeySuffix(separate_albums_by_grouping, song)
    [] group_by = "Disc" -> PrettyDisc(song.disc)
    [] group_by = "Year" -> Number(Max(0, song.year))
    [] group_by = "OriginalYear" -> Number(Max(0, effective_originalyear(song)))
    [] group_by = "Genre" -> TextOrUnknown(song.genre)
    [] group_by = "Composer" -> TextOrUnknown(song.composer)
    [] group_by = "Performer" -> TextOrUnknown(song.performer)
    [] group_by = "Grouping" -> TextOrUnknown(song.grouping)
    [] group_by = "FileType" -> TextForFiletype(song)
    [] group_by = "Samplerate" -> Number(Max(0, song.samplerate))
    [] group_by = "Bitdepth" -> Number(Max(0, song.bitdepth))
    [] group_by = "Bitrate" -> Number(Max(0, song.bitrate))
    [] group_by = "Format" ->
         IF song.samplerate <= 0 THEN TextForFiletype(song)
         ELSE IF song.bitdepth <= 0
           THEN TextForFiletype(song) \o <<32, 40>> \o NumberKHz(song.samplerate) \o <<41>>
           ELSE TextForFiletype(song) \o <<32, 40>> \o NumberKHz(song.samplerate)
                  \o <<47>> \o Number(song.bitdepth) \o <<41>>
    [] OTHER -> <<>>

\* DividerKey on an item's sort text and metadata
DividerKey(group_by, item) ==
  IF item.sort_text = <<>> THEN <<>>
  ELSE CASE group_by \in {"AlbumArtist", "Artist", "Album", "AlbumDisc", "Composer",
                          "Performer", "Grouping", "Disc", "Genre", "Format", "FileType"} ->
              LET c == item.sort_text[1]
              IN IF IsDigit(c) THEN <<48>>
                 ELSE IF c = 32 THEN <<>>
                 ELSE IF DecompositionBase(c) # NULL THEN <<DecompositionBase(c)>>
                 ELSE <<c>>
         [] group_by \in {"Year", "OriginalYear"} ->
              SortTextForNumber((ToInt(item.sort_text) \div 10) * 10)
         [] group_by \in {"YearAlbum", "YearAlbumDisc"} ->
              SortTextForNumber(item.metadata.year)
         [] group_by \in {"OriginalYearAlbum", "OriginalYearAlbumDisc"} ->
              SortTextForNumber(effective_originalyear(item.metadata))
         [] group_by = "Samplerate" -> SortTextForNumber(item.metadata.samplerate)
         [] group_by = "Bitdepth" -> SortTextForNumber(item.metadata.bitdepth)
         [] group_by = "Bitrate" -> SortTextForNumber(item.metadata.bitrate)
         [] OTHER -> <<>>

DividerDisplayText(group_by, key) ==
  CASE group_by \in {"AlbumArtist", "Artist", "Album", "AlbumDisc", "Composer",
                     "Performer", "Disc", "Grouping", "Genre", "FileType", "Format"} ->
         IF key = <<48>> THEN <<48, 45, 57>> ELSE ToUpper(key)
    [] group_by \in {"YearAlbum", "YearAlbumDisc", "OriginalYearAlbum",
                     "OriginalYearAlbumDisc"} ->
         IF key = <<48, 48, 48, 48>> THEN kUnknown ELSE ToUpper(key)
    [] group_by \in {"Year", "OriginalYear"} ->
         IF key = <<48, 48, 48, 48>> THEN kUnknown ELSE Number(ToInt(key))
    [] group_by \in {"Samplerate", "Bitdepth", "Bitrate"} ->
         IF key = <<48, 48, 48>> THEN kUnknown ELSE Number(ToInt(key))
    [] OTHER -> <<>>

----------------------------------------------------------------------------
(* Tree items (SimpleTreeItem / CollectionItem) and the QMap tables *)

\* a local variable: Let(v, LAMBDA x : e) is e with x standing for the value v
Let(v, Body(_)) == Body(v)

\* QMap::insert / operator[]=
MapPut(f, k, v) == [x \in (DOMAIN f) \cup {k} |-> IF x = k THEN v ELSE f[x]]

\* QMap::remove
MapRemove(f, k) == [x \in (DOMAIN f) \ {k} |-> f[x]]

\* QMap::values, as a set
MapValues(f) == {f[x] : x \in DOMAIN f}

\* the address the allocator returns for the next "new CollectionItem"
NewAddress(its) ==
  CHOOSE n \in 1..(Cardinality(DOMAIN its) + 1) :
    n \notin DOMAIN its /\ \A k \in 1..(n - 1) : k \in DOMAIN its

\* CollectionItem(Type, parent): the fresh item, not yet linked into its parent
NewItem(type, parent) ==
  [type |-> type, parent |-> parent, children |-> <<>>, key |-> <<>>,
   display_text |-> <<>>, sort_text |-> <<>>, container_level |-> -1,
   metadata |-> DefaultSong, compilation_artist_node_ |-> NULL]

\* SimpleTreeItem(type, parent): the item appends itself to parent->children
LinkItem(its, id, item) ==
  LET with == MapPut(its, id, item)
  IN [with EXCEPT ![item.parent].children = Append(@, id)]

\* position of a child in a list of children, 1-based (0: absent)
IndexOf(seq, x) ==
  IF \E i \in 1..Len(seq) : seq[i] = x THEN CHOOSE i \in 1..Len(seq) : seq[i] = x ELSE 0

\* SimpleTreeItem::row
Row(its, id) == IndexOf(its[its[id].parent].children, id) - 1

\* the item and everything below it
RECURSIVE Subtree(_, _)
Subtree(its, id) ==
  {id} \cup UNION {Subtree(its, its[id].children[i]) : i \in 1..Len(its[id].children)}

\* SimpleTreeItem::Delete(row): the child and its subtree are destroyed,
\* the later siblings move up one row
Delete(its, parent, row) ==
  LET child == its[parent].children[row + 1]
      gone == Subtree(its, child)
      kept == [x \in (DOMAIN its) \ gone |-> its[x]]
  IN [kept EXCEPT ![parent].children = SelectSeq(@, LAMBDA c : c # child)]

\* appends a model signal to those emitted by the running step; the begin
\* signals carry the parent and row the call names, endInsertRows (which has
\* no arguments) carries the parent and row the new item has when it is called
Emit(m, sig, parent, row) ==
  [m EXCEPT !.emitted = Append(@, [sig |-> sig, parent |-> parent, row |-> row])]

\* the metadata, key part, display text and sort text ItemFromSong gives an item
ItemTexts(group_by, separate, s, skip_articles) ==
  Let(ContainerKey(group_by, separate, s), LAMBDA ck :
  LET d == DefaultSong
      disc1 == IF s.disc <= 0 THEN -1 ELSE s.disc
      year1 == IF s.year <= 0 THEN -1 ELSE s.year
      oyear1 == IF s.originalyear <= 0 THEN -1 ELSE s.originalyear
  IN CASE group_by = "AlbumArtist" ->
            [metadata |-> [d EXCEPT !.albumartist = effective_albumartist(s)], key |-> ck,
             display_text |-> TextOrUnknown(effective_albumartist(s)),
             sort_text |-> SortTextForArtist(effective_albumartist(s), skip_articles)]
       [] group_by = "Artist" ->
            [metadata |-> [d EXCEPT !.artist = s.artist], key |-> ck,
             display_text |-> TextOrUnknown(s.artist),
             sort_text |-> SortTextForArtist(s.artist, skip_articles)]
       [] group_by = "Album" ->
            [metadata |-> [d EXCEPT !.album = s.album, !.album_id = s.album_id,
                                    !.grouping = s.grouping], key |-> ck,
             display_text |-> TextOrUnknown(s.album),
             sort_text |-> SortTextForArtist(s.album, skip_articles)]
       [] group_by = "AlbumDisc" ->
            [metadata |-> [d EXCEPT !.album = s.album, !.album_id = s.album_id,
                                    !.disc = disc1, !.grouping = s.grouping], key |-> ck,
             display_text |-> PrettyAlbumDisc(s.album, s.disc),
             sort_text |-> s.album \o SortTextForNumber(Max(0, s.disc))]
       [] group_by = "YearAlbum" ->
            [metadata |-> [d EXCEPT !.year = year1, !.album = s.album,
                                    !.album_id = s.album_id, !.grouping = s.grouping],
             key |-> ck,
             display_text |-> PrettyYearAlbum(s.year, s.album),
             sort_text |-> SortTextForNumber(Max(0, s.year)) \o s.grouping \o s.album]
       [] group_by = "YearAlbumDisc" ->
            [metadata |-> [d EXCEPT !.year = year1, !.album = s.album,
                                    !.album_id = s.album_id, !.disc = disc1,
                                    !.grouping = s.grouping], key |-> ck,
             display_text |-> PrettyYearAlbumDisc(s.year, s.album, s.disc),
             sort_text |-> SortTextForNumber(Max(0, s.year)) \o s.album
                             \o SortTextForNumber(Max(0, s.disc))]
       [] group_by = "OriginalYearAlbum" ->
            [metadata |-> [d EXCEPT !.year = year1, !.originalyear = oyear1,
                                    !.album = s.album, !.album_id = s.album_id,
                                    !.grouping = s.grouping], key |-> ck,
             display_text |-> PrettyYearAlbum(effective_originalyear(s), s.album),
             sort_text |-> SortTextForNumber(Max(0, effective_originalyear(s)))
                             \o s.grouping \o s.album]
       [] group_by = "OriginalYearAlbumDisc" ->
            [metadata |-> [d EXCEPT !.year = year1, !.originalyear = oyear1,
                                    !.album = s.album, !.album_id = s.album_id,
                                    !.disc = disc1, !.grouping = s.grouping], key |-> ck,
             display_text |-> PrettyYearAlbumDisc(effective_originalyear(s), s.album, s.disc),
             sort_text |-> SortTextForNumber(Max(0, effective_originalyear(s))) \o s.album
                             \o SortTextForNumber(Max(0, s.disc))]
       [] group_by = "Disc" ->
            [metadata |-> [d EXCEPT !.disc = disc1], key |-> ck,
             display_text |-> PrettyDisc(Max(0, s.disc)),
             sort_text |-> SortTextForNumber(Max(0, s.disc))]
       [] group_by = "Year" ->
            [metadata |-> [d EXCEPT !.year = year1], key |-> ck,
             display_text |-> Number(Max(0, s.year)),
             sort_text |-> SortTextForNumber(Max(0, s.year)) \o <<32>>]
       [] group_by = "OriginalYear" ->
            [metadata |-> [d EXCEPT !.originalyear =
                             IF effective_originalyear(s) <= 0 THEN -1
                             ELSE effective_originalyear(s)], key |-> ck,
             display_text |-> Number(Max(0, effective_originalyear(s))),
             sort_text |-> SortTextForNumber(Max(0, effective_originalyear(s))) \o <<32>>]
       [] group_by = "Genre" ->
            [metadata |-> [d EXCEPT !.genre = s.genre], key |-> ck,
             display_text |-> TextOrUnknown(s.genre),
             sort_text |-> SortTextForArtist(s.genre, skip_articles)]
       [] group_by = "Composer" ->
            [metadata |-> [d EXCEPT !.composer = s.composer], key |-> ck,
             display_text |-> TextOrUnknown(s.composer),
             sort_text |-> SortTextForArtist(s.composer, skip_articles)]
       [] group_by = "Performer" ->
            [metadata |-> [d EXCEPT !.performer = s.performer], key |-> ck,
             display_text |-> TextOrUnknown(s.performer),
             sort_text |-> SortTextForArtist(s.performer, skip_articles)]
       [] group_by = "Grouping" ->
            [metadata |-> [d EXCEPT !.grouping = s.grouping], key |-> ck,
             display_text |-> TextOrUnknown(s.grouping),
             sort_text |-> SortTextForArtist(s.grouping, skip_articles)]
       [] group_by = "FileType" ->
            [metadata |-> [d EXCEPT !.filetype = s.filetype], key |-> ck,
             display_text |-> TextForFiletype(s), sort_text |-> TextForFiletype(s)]
       [] group_by = "Format" ->
            [metadata |-> [d EXCEPT !.filetype = s.filetype, !.samplerate = s.samplerate,
                                    !.bitdepth = s.bitdepth], key |-> ck,
             display_text |-> ck, sort_text |-> ck]
       [] group_by = "Samplerate" ->
            [metadata |-> [d EXCEPT !.samplerate = s.samplerate], key |-> ck,
             display_text |-> Number(Max(0, s.samplerate)),
             sort_text |-> SortTextForNumber(Max(0, s.samplerate)) \o <<32>>]
       [] group_by = "Bitdepth" ->
            [metadata |-> [d EXCEPT !.bitdepth = s.bitdepth], key |-> ck,
             display_text |-> Number(Max(0, s.bitdepth)),
             sort_text |-> SortTextForNumber(Max(0, s.bitdepth)) \o <<32>>]
       [] group_by = "Bitrate" ->
            [metadata |-> [d EXCEPT !.bitrate = s.bitrate], key |-> ck,
             display_text |-> Number(Max(0, s.bitrate)),
             sort_text |-> SortTextForNumber(Max(0, s.bitrate)) \o <<32>>]
       [] OTHER ->
            [metadata |-> s, key |-> TextOrUnknown(s.title),
             display_text |-> TitleWithCompilationArtist(s), sort_text |-> <<>>])

\* Grouping::operator[](i), i = 0, 1, 2
GroupByAt(i) == group_by_[i + 1]

\* InitItem announcing row 0 whatever the number of children of the parent
InitItemFirstRow(m, group_by, signal, parent, container_level) ==
  LET m1 == IF signal THEN Emit(m, "beginInsertRows", parent, 0) ELSE m
      item == [NewItem(IF group_by = "None" THEN "Song" ELSE "Container", parent)
                 EXCEPT !.container_level = container_level]
  IN [m1 EXCEPT !.items = LinkItem(@, NewAddress(m.items), item)]

\* InitItem: the item type, and the row the new item takes under its parent
InitItem(m, group_by, signal, parent, container_level) ==
  LET m1 == IF signal
            THEN Emit(m, "beginInsertRows", parent, Len(m.items[parent].children))
            ELSE m
      item == [NewItem(IF group_by = "None" THEN "Song" ELSE "Container", parent)
                 EXCEPT !.container_level = container_level]
  IN [m1 EXCEPT !.items = LinkItem(@, NewAddress(m.items), item)]

\* FinishItem not entering the new divider in divider_nodes_
FinishItemUnlisted(m, group_by, signal, create_divider, parent, id) ==
  Let(IF signal THEN Emit(m, "endInsertRows", m.items[id].parent, Row(m.items, id)) ELSE m, LAMBDA m1 :
  Let(DividerKey(group_by, m1.items[id]), LAMBDA divider_key :
    IF ~(create_divider /\ show_dividers_) THEN m1
    ELSE
  Let(IF divider_key # <<>>
      THEN [m1 EXCEPT !.items[id].sort_text = divider_key \o <<32>> \o @]
      ELSE m1, LAMBDA m2 :
    IF ~(divider_key # <<>> /\ divider_key \notin DOMAIN m2.divider_nodes_) THEN m2
    ELSE
  Let(IF signal
      THEN Emit(m2, "beginInsertRows", parent, Len(m2.items[parent].children))
      ELSE m2, LAMBDA m3 :
  Let(NewAddress(m3.items), LAMBDA did :
  Let([m3 EXCEPT !.items = LinkItem(@, did,
                    [NewItem("Divider", m3.root_) EXCEPT
                       !.key = divider_key,
                       !.display_text = DividerDisplayText(group_by, divider_key),
                       !.sort_text = divider_key \o <<32, 32>>])], LAMBDA m4 :
    IF signal THEN Emit(m4, "endInsertRows", m4.items[did].parent, Row(m4.items, did)) ELSE m4))))))

\* FinishItem: ends the insertion and creates the divider of a top-level item
FinishItem(m, group_by, signal, create_divider, parent, id) ==
  Let(IF signal THEN Emit(m, "endInsertRows", m.items[id].parent, Row(m.items, id)) ELSE m, LAMBDA m1 :
  Let(DividerKey(group_by, m1.items[id]), LAMBDA divider_key :
    IF ~(create_divider /\ show_dividers_) THEN m1
    ELSE
  Let(IF divider_key # <<>>
      THEN [m1 EXCEPT !.items[id].sort_text = divider_key \o <<32>> \o @]
      ELSE m1, LAMBDA m2 :
    IF ~(divider_key # <<>> /\ divider_key \notin DOMAIN m2.divider_nodes_) THEN m2
    ELSE
  Let(IF signal
      THEN Emit(m2, "beginInsertRows", parent, Len(m2.items[parent].children))
      ELSE m2, LAMBDA m3 :
  Let(NewAddress(m3.items), LAMBDA did :
  Let([m3 EXCEPT !.items = LinkItem(@, did,
                    [NewItem("Divider", m3.root_) EXCEPT
                       !.key = divider_key,
                       !.display_text = DividerDisplayText(group_by, divider_key),
                       !.sort_text = divider_key \o <<32, 32>>]),
                 !.divider_nodes_ = MapPut(@, divider_key, did)], LAMBDA m4 :
    IF signal THEN Emit(m4, "endInsertRows", m4.items[did].parent, Row(m4.items, did)) ELSE m4))))))

\* ItemFromSong: the new item gets the address NewAddress(m.items)
ItemFromSong(m, group_by, separate, signal, create_divider, parent, s, container_level) ==
  LET id == NewAddress(m.items)
      prefix == IF parent # m.root_ /\ m.items[parent].key # <<>>
                THEN m.items[parent].key \o <<45>> ELSE <<>>
  IN
  Let(ItemTexts(group_by, separate, s, sort_skips_articles_), LAMBDA tx :
    FinishItem([InitItem(m, group_by, signal, parent, container_level) EXCEPT
                  !.items[id].metadata = tx.metadata,
                  !.items[id].key = prefix \o tx.key,
                  !.items[id].display_text = tx.display_text,
                  !.items[id].sort_text =
                     IF group_by # "None" THEN tx.sort_text
                     ELSE IF container_level = 1 /\ ~IsAlbumGroupBy(GroupByAt(0))
                       THEN SortText(s.title)
                       ELSE SortTextForSong(s)],
               group_by, signal, create_divider, parent, id))

\* CreateCompilationArtistNode: the new node gets the address NewAddress(m.items)
CreateCompilationArtistNode(m, signal, parent) ==
  LET id == NewAddress(m.items)
      m1 == IF signal
            THEN Emit(m, "beginInsertRows", parent, Len(m.items[parent].children))
            ELSE m
      pkey == IF parent # m.root_ /\ m.items[parent].key # <<>>
              THEN m.items[parent].key ELSE <<>>
      node == [NewItem("Container", parent) EXCEPT
                 !.key = pkey \o kVariousArtists,
                 !.display_text = kVariousArtists,
                 !.sort_text = <<32, 118, 97, 114, 105, 111, 117, 115>>,    \* " various"
                 !.container_level = m.items[parent].container_level + 1]
  IN
  Let([m1 EXCEPT !.items = [LinkItem(@, id, node) EXCEPT
                              ![parent].compilation_artist_node_ = id]], LAMBDA m3 :
    IF signal THEN Emit(m3, "endInsertRows", m3.items[id].parent, Row(m3.items, id)) ELSE m3)

\* IsCompilationArtistNode
IsCompilationArtistNode(its, node) ==
  node = its[its[node].parent].compilation_artist_node_

----------------------------------------------------------------------------
(* Tree index operations.  m is the record of the members an operation may   *)
(* change: root_, items, songs_, song_nodes_, container_nodes_,              *)
(* divider_nodes_, pending_art_, pending_cache_keys_, pixmap_cache, emitted. *)

\* levels i..2 of the "find parent containers" loop of AddSongs
RECURSIVE FindContainer(_, _, _, _, _)
FindContainer(m, song, i, container, key) ==
  IF i >= 3 \/ GroupByAt(i) = "None" THEN [m |-> m, container |-> container]
  ELSE IF IsArtistGroupBy(GroupByAt(i)) /\ is_compilation(song)
    THEN
      Let(IF m.items[container].compilation_artist_node_ = NULL
          THEN CreateCompilationArtistNode(m, TRUE, container)
          ELSE m, LAMBDA m1 :
      Let(m1.items[container].compilation_artist_node_, LAMBDA va :
        FindContainer(m1, song, i + 1, va, m1.items[va].key)))
    ELSE
      Let((IF key # <<>> THEN key \o <<45>> ELSE key)
            \o ContainerKey(GroupByAt(i), separate_albums_by_grouping_, song), LAMBDA key2 :
        IF key2 \in DOMAIN m.container_nodes_[i + 1]
        THEN FindContainer(m, song, i + 1, m.container_nodes_[i + 1][key2], key2)
        ELSE
      Let(NewAddress(m.items), LAMBDA id :
        FindContainer([ItemFromSong(m, GroupByAt(i), separate_albums_by_grouping_,
                                    TRUE, i = 0, container, song, i)
                         EXCEPT !.container_nodes_[i + 1] = MapPut(@, key2, id)],
                      song, i + 1, id, key2)))

\* the tail of the loop body of AddSongs: finds or creates the containers of
\* the song and creates its node, at the address NewAddress of the heap then
AddSongNode(m, song) ==
  Let(FindContainer(m, song, 0, m.root_, <<>>), LAMBDA found :
  Let(NewAddress(found.m.items), LAMBDA id :
    [ItemFromSong(found.m, "None", separate_albums_by_grouping_, TRUE, FALSE,
                  found.container, song, -1)
       EXCEPT !.song_nodes_ = MapPut(@, song.id, id)]))

\* AddSong without the filter test
AddSongUnfiltered(m, song) ==
  Let([m EXCEPT !.songs_ = MapPut(@, song.id, song)], LAMBDA m1 :
    IF song.id \in DOMAIN m1.song_nodes_ THEN m1
    ELSE AddSongNode(m1, song))

\* AddSong without the test for a leaf the song already has
AddSongAgain(m, song) ==
  Let([m EXCEPT !.songs_ = MapPut(@, song.id, song)], LAMBDA m1 :
    IF ~Matches(filter_options_, song) THEN m1
    ELSE AddSongNode(m1, song))

\* one iteration of the loop of AddSongs
AddSong(m, song) ==
  Let([m EXCEPT !.songs_ = MapPut(@, song.id, song)], LAMBDA m1 :
    IF ~Matches(filter_options_, song) THEN m1
    ELSE IF song.id \in DOMAIN m1.song_nodes_ THEN m1
    ELSE AddSongNode(m1, song))

RECURSIVE AddSongs(_, _)
AddSongs(m, songs) ==
  IF songs = <<>> THEN m ELSE AddSongs(AddSong(m, Head(songs)), Tail(songs))

\* Song::TextForSource(backend_->source())
kSourceText == <<99, 111, 108, 108, 101, 99, 116, 105, 111, 110>>      \* "collection"

\* the display texts from the top-level ancestor down to the item, "/"-joined
RECURSIVE DisplayPath(_, _, _)
DisplayPath(its, root, id) ==
  IF id = root \/ id = NULL THEN <<>>
  ELSE IF its[id].parent = root \/ its[id].parent = NULL THEN its[id].display_text
  ELSE DisplayPath(its, root, its[id].parent) \o <<47>> \o its[id].display_text

\* AlbumIconPixmapCacheKey(ItemToIndex(item))
AlbumIconPixmapCacheKey(m, id) == kSourceText \o <<47>> \o DisplayPath(m.items, m.root_, id)

\* the UTF-8 bytes of a code unit (surrogate pairs are not formed)
Utf8(c) ==
  IF c < 128 THEN <<c>>
  ELSE IF c < 2048 THEN <<192 + (c \div 64), 128 + (c % 64)>>
  ELSE <<224 + (c \div 4096), 128 + ((c \div 64) % 64), 128 + (c % 64)>>

\* an upper-case hexadecimal digit
HexDigit(d) == IF d < 10 THEN 48 + d ELSE 55 + d

\* QUrl::toPercentEncoding: letters, digits and "-", ".", "_", "~" are kept,
\* every other byte of the UTF-8 text becomes "%" and two hexadecimal digits
RECURSIVE PercentEncodeBytes(_)
PercentEncodeBytes(bytes) ==
  IF bytes = <<>> THEN <<>>
  ELSE LET b == Head(bytes)
       IN (IF b \in 65..90 \/ b \in 97..122 \/ b \in 48..57 \/ b \in {45, 46, 95, 126}
           THEN <<b>>
           ELSE <<37, HexDigit(b \div 16), HexDigit(b % 16)>>)
          \o PercentEncodeBytes(Tail(bytes))

RECURSIVE toPercentEncoding(_)
toPercentEncoding(text) ==
  IF text = <<>> THEN <<>>
  ELSE PercentEncodeBytes(Utf8(Head(text))) \o toPercentEncoding(Tail(text))

\* AlbumIconPixmapDiskCacheKey: the URL made of the percent-encoded cache key
AlbumIconPixmapDiskCacheKey(cache_key) == toPercentEncoding(cache_key)

\* first loop of RemoveSongs: deletes the song nodes, collects their parents
RECURSIVE RemoveSongNodes(_, _, _)

\* the first loop of RemoveSongs leaving the loop at a song that has no leaf
RemoveSongNodesStopping(m, songs, parents) ==
  IF songs = <<>> THEN [m |-> m, parents |-> parents]
  ELSE IF Head(songs).id \notin DOMAIN m.song_nodes_ THEN [m |-> m, parents |-> parents]
  ELSE
    Let(m.song_nodes_[Head(songs).id], LAMBDA node :
    Let(m.items[node].parent, LAMBDA parent :
    Let(Row(m.items, node), LAMBDA row :
      RemoveSongNodes(
        Emit([Emit([m EXCEPT !.songs_ = IF Head(songs).id \in DOMAIN @
                                        THEN MapPut(@, Head(songs).id, Head(songs))
                                        ELSE @],
                   "beginRemoveRows", parent, row)
                EXCEPT !.items = Delete(@, parent, row),
                       !.song_nodes_ = MapRemove(@, Head(songs).id)],
             "endRemoveRows", parent, row),
        Tail(songs),
        IF parent # m.root_ THEN parents \cup {parent} ELSE parents))))

RemoveSongNodes(m, songs, parents) ==
  IF songs = <<>> THEN [m |-> m, parents |-> parents]
  ELSE
    Let(IF Head(songs).id \in DOMAIN m.songs_
        THEN [m EXCEPT !.songs_ = MapPut(@, Head(songs).id, Head(songs))]
        ELSE m, LAMBDA m1 :
      IF Head(songs).id \notin DOMAIN m1.song_nodes_
      THEN RemoveSongNodes(m1, Tail(songs), parents)
      ELSE
    Let(m1.song_nodes_[Head(songs).id], LAMBDA node :
    Let(m1.items[node].parent, LAMBDA parent :
    Let(Row(m1.items, node), LAMBDA row :
      RemoveSongNodes(
        Emit([Emit(m1, "beginRemoveRows", parent, row)
                EXCEPT !.items = Delete(@, parent, row),
                       !.song_nodes_ = MapRemove(@, Head(songs).id)],
             "endRemoveRows", parent, row),
        Tail(songs),
        IF parent # m1.root_ THEN parents \cup {parent} ELSE parents)))))

\* PruneNode leaving the entries of pending_art_ that target the node
PruneNodeKeepingArt(m, node) ==
  LET it == m.items[node]
      level == it.container_level
  IN
  Let(IF IsCompilationArtistNode(m.items, node)
      THEN [m EXCEPT !.items[it.parent].compilation_artist_node_ = NULL]
      ELSE IF it.key \in DOMAIN m.container_nodes_[level + 1]
        THEN [m EXCEPT !.container_nodes_[level + 1] = MapRemove(@, it.key)]
        ELSE m, LAMBDA m1 :
  Let(AlbumIconPixmapCacheKey(m1, node), LAMBDA cache_key :
  Let(Row(m1.items, node), LAMBDA row :
    Emit([Emit([m1 EXCEPT !.pixmap_cache = MapRemove(@, cache_key),
                          !.pending_cache_keys_ = @ \ {cache_key}],
               "beginRemoveRows", it.parent, row)
            EXCEPT !.items = Delete(@, it.parent, row)],
         "endRemoveRows", it.parent, row))))

\* body of the loop over parents_copy for one node that has no children
PruneNode(m, node) ==
  LET it == m.items[node]
      level == it.container_level
  IN
  Let(IF IsCompilationArtistNode(m.items, node)
      THEN [m EXCEPT !.items[it.parent].compilation_artist_node_ = NULL]
      ELSE IF it.key \in DOMAIN m.container_nodes_[level + 1]
        THEN [m EXCEPT !.container_nodes_[level + 1] = MapRemove(@, it.key)]
        ELSE m, LAMBDA m1 :
  Let(AlbumIconPixmapCacheKey(m1, node), LAMBDA cache_key :
  Let(Row(m1.items, node), LAMBDA row :
    Emit([Emit([m1 EXCEPT !.pixmap_cache = MapRemove(@, cache_key),
                          !.sIconCache =
                             IF use_disk_cache_ /\ app_
                             THEN @ \ {AlbumIconPixmapDiskCacheKey(cache_key)} ELSE @,
                          !.pending_cache_keys_ = @ \ {cache_key},
                          !.pending_art_ =
                             [x \in {y \in DOMAIN @ : @[y].item # node} |-> @[x]]],
               "beginRemoveRows", it.parent, row)
            EXCEPT !.items = Delete(@, it.parent, row)],
         "endRemoveRows", it.parent, row))))

\* the "delete empty parents" loop of RemoveSongs: copy holds the nodes of
\* parents_copy still to visit (QSet order: lowest address first), parents
\* the set being collected for the next round
RECURSIVE PruneParents(_, _, _, _)

\* PruneParents not putting the parent of a deleted node up for the next round
PruneParentsOnce(m, copy, parents, divider_keys) ==
  IF copy = {} /\ parents = {} THEN [m |-> m, divider_keys |-> divider_keys]
  ELSE IF copy = {} THEN PruneParents(m, parents, parents, divider_keys)
  ELSE LET node == CHOOSE n \in copy : \A o \in copy : n <= o
           rest == copy \ {node}
           parents1 == parents \ {node}
       IN IF m.items[node].children # <<>>
          THEN PruneParents(m, rest, parents1, divider_keys)
          ELSE LET keys2 == IF m.items[node].container_level = 0
                            THEN divider_keys \cup {DividerKey(GroupByAt(0), m.items[node])}
                            ELSE divider_keys
               IN PruneParents(PruneNode(m, node), rest, parents1, keys2)

PruneParents(m, copy, parents, divider_keys) ==
  IF copy = {} /\ parents = {} THEN [m |-> m, divider_keys |-> divider_keys]
  ELSE IF copy = {} THEN PruneParents(m, parents, parents, divider_keys)
  ELSE LET node == CHOOSE n \in copy : \A o \in copy : n <= o
           rest == copy \ {node}
           parents1 == parents \ {node}
       IN IF m.items[node].children # <<>>
          THEN PruneParents(m, rest, parents1, divider_keys)
          ELSE LET parent == m.items[node].parent
                   parents2 == IF parent # m.root_ THEN parents1 \cup {parent} ELSE parents1
                   keys2 == IF m.items[node].container_level = 0
                            THEN divider_keys \cup {DividerKey(GroupByAt(0), m.items[node])}
                            ELSE divider_keys
               IN PruneParents(PruneNode(m, node), rest, parents2, keys2)

\* the "delete empty dividers" loop of RemoveSongs
RECURSIVE RemoveEmptyDividers(_, _)
RemoveEmptyDividers(m, divider_keys) ==
  IF divider_keys = {} THEN m
  ELSE LET divider_key == CHOOSE k \in divider_keys : TRUE
           rest == divider_keys \ {divider_key}
       IN IF divider_key \notin DOMAIN m.divider_nodes_ THEN RemoveEmptyDividers(m, rest)
          ELSE IF \E node \in MapValues(m.container_nodes_[1]) :
                    DividerKey(GroupByAt(0), m.items[node]) = divider_key
            THEN RemoveEmptyDividers(m, rest)
            ELSE LET row == Row(m.items, m.divider_nodes_[divider_key])
                     m1 == Emit(m, "beginRemoveRows", m.root_, row)
                     m2 == [m1 EXCEPT !.items = Delete(@, m.root_, row)]
                     m3 == Emit(m2, "endRemoveRows", m.root_, row)
                 IN RemoveEmptyDividers(
                      [m3 EXCEPT !.divider_nodes_ = MapRemove(@, divider_key)], rest)

RemoveSongs(m, songs) ==
  Let(RemoveSongNodes(m, songs, {}), LAMBDA r1 :
  Let(PruneParents(r1.m, r1.parents, r1.parents, {}), LAMBDA r2 :
    RemoveEmptyDividers(r2.m, r2.divider_keys)))

\* IsCollectionMetadataEqual comparing the rating and the play count as well
IsCollectionMetadataEqualWithRating(song1, song2) ==
  /\ song1.title = song2.title
  /\ song1.album = song2.album
  /\ song1.artist = song2.artist
  /\ song1.albumartist = song2.albumartist
  /\ song1.track = song2.track
  /\ song1.disc = song2.disc
  /\ song1.year = song2.year
  /\ song1.originalyear = song2.originalyear
  /\ song1.genre = song2.genre
  /\ song1.compilation = song2.compilation
  /\ song1.composer = song2.composer
  /\ song1.performer = song2.performer
  /\ song1.grouping = song2.grouping
  /\ song1.bitrate = song2.bitrate
  /\ song1.samplerate = song2.samplerate
  /\ song1.bitdepth = song2.bitdepth
  /\ song1.rating = song2.rating
  /\ song1.playcount = song2.playcount

IsCollectionMetadataEqual(song1, song2) ==
  /\ song1.title = song2.title
  /\ song1.album = song2.album
  /\ song1.artist = song2.artist
  /\ song1.albumartist = song2.albumartist
  /\ song1.track = song2.track
  /\ song1.disc = song2.disc
  /\ song1.year = song2.year
  /\ song1.originalyear = song2.originalyear
  /\ song1.genre = song2.genre
  /\ song1.compilation = song2.compilation
  /\ song1.composer = song2.composer
  /\ song1.performer = song2.performer
  /\ song1.grouping = song2.grouping
  /\ song1.bitrate = song2.bitrate
  /\ song1.samplerate = song2.samplerate
  /\ song1.bitdepth = song2.bitdepth

\* SimpleTreeModel::ItemToIndex(item).isValid()
IndexIsValid(its, id) == id # NULL /\ its[id].parent # NULL

\* UpdateSongs removing the songs and adding them again
UpdateSongsReAdding(m, songs) == AddSongs(RemoveSongs(m, songs), songs)

RECURSIVE UpdateSongs(_, _)
UpdateSongs(m, songs) ==
  IF songs = <<>> THEN m
  ELSE
    Let(IF Head(songs).id \in DOMAIN m.songs_
        THEN [m EXCEPT !.songs_ = MapPut(@, Head(songs).id, Head(songs))]
        ELSE m, LAMBDA m1 :
      IF Head(songs).id \notin DOMAIN m1.song_nodes_ THEN UpdateSongs(m1, Tail(songs))
      ELSE
    Let(m1.song_nodes_[Head(songs).id], LAMBDA item :
    Let(~IsCollectionMetadataEqual(Head(songs), m1.items[item].metadata),
        LAMBDA data_changed :
    Let([m1 EXCEPT !.items[item].metadata = Head(songs)], LAMBDA m2 :
      IF data_changed
      THEN IF ~IndexIsValid(m2.items, item) THEN m2
           ELSE UpdateSongs(Emit(m2, "dataChanged", m2.items[item].parent,
                                 Row(m2.items, item)), Tail(songs))
      ELSE UpdateSongs(m2, Tail(songs))))))

\* ReAddOrUpdate never finding a container key changed
ContainerKeyNeverChanged(song, metadata) == FALSE

\* whether ReAddOrUpdate finds the container key of a tracked song changed
ContainerKeyChanged(song, metadata) ==
  \E i \in 0..2 :
    ContainerKey(GroupByAt(i), separate_albums_by_grouping_, song)
      # ContainerKey(GroupByAt(i), separate_albums_by_grouping_, metadata)

\* ReAddOrUpdate: the three lists handed to SongsUpdated, SongsRemoved, SongsAdded
RECURSIVE ReAddOrUpdate(_, _, _)
ReAddOrUpdate(m, songs, acc) ==
  IF songs = <<>> THEN acc
  ELSE LET song == Head(songs)
       IN IF song.id \notin DOMAIN m.song_nodes_ THEN ReAddOrUpdate(m, Tail(songs), acc)
          ELSE LET metadata == m.items[m.song_nodes_[song.id]].metadata
               IN IF ContainerKeyChanged(song, metadata)
                  THEN ReAddOrUpdate(m, Tail(songs),
                         [acc EXCEPT !.songs_removed = Append(@, metadata),
                                     !.songs_added = Append(@, song)])
                  ELSE ReAddOrUpdate(m, Tail(songs),
                         [acc EXCEPT !.songs_updated = Append(@, song)])

\* CompareItems with the order reversed
CompareItemsReversed(its, a, b) == StrLess(its[b].sort_text, its[a].sort_text)

\* CompareItems: Role_SortText is a QString, so the QString branch is taken
CompareItems(its, a, b) == StrLess(its[a].sort_text, its[b].sort_text)

\* std::sort with CompareItems, as an insertion sort (equal keys keep their order)
RECURSIVE InsertSorted(_, _, _)
InsertSorted(its, sorted, x) ==
  IF sorted = <<>> THEN <<x>>
  ELSE IF CompareItems(its, x, Head(sorted)) THEN <<x>> \o sorted
  ELSE <<Head(sorted)>> \o InsertSorted(its, Tail(sorted), x)

RECURSIVE SortItems(_, _)
SortItems(its, children) ==
  IF children = <<>> THEN <<>>
  ELSE InsertSorted(its, SortItems(its, SubSeq(children, 1, Len(children) - 1)),
                    children[Len(children)])

\* GetChildSongs(item, urls, songs, song_ids); acc holds urls, songs, song_ids;
\* todo is the list of items still to visit, in order
RECURSIVE GetChildSongsItems(_, _, _)

\* GetChildSongs appending a song without looking at song_ids
GetChildSongsItemsAll(its, todo, acc) ==
  IF todo = <<>> THEN acc
  ELSE LET item == its[Head(todo)]
       IN CASE item.type = "Container" ->
                 GetChildSongsItems(its, SortItems(its, item.children) \o Tail(todo), acc)
            [] item.type = "Song" ->
                 GetChildSongsItems(its, Tail(todo),
                   [urls |-> Append(acc.urls, item.metadata.url),
                    songs |-> Append(acc.songs, item.metadata),
                    song_ids |-> acc.song_ids \cup {item.metadata.id}])
            [] OTHER -> GetChildSongsItems(its, Tail(todo), acc)

GetChildSongsItems(its, todo, acc) ==
  IF todo = <<>> THEN acc
  ELSE LET item == its[Head(todo)]
       IN CASE item.type = "Container" ->
                 GetChildSongsItems(its, SortItems(its, item.children) \o Tail(todo), acc)
            [] item.type = "Song" ->
                 GetChildSongsItems(its, Tail(todo),
                   [urls |-> Append(acc.urls, item.metadata.url),
                    songs |-> IF item.metadata.id \in acc.song_ids THEN acc.songs
                              ELSE Append(acc.songs, item.metadata),
                    song_ids |-> acc.song_ids \cup {item.metadata.id}])
            [] OTHER -> GetChildSongsItems(its, Tail(todo), acc)

\* GetChildSongs(const QModelIndexList &indexes)
GetChildSongs(its, indexes) ==
  GetChildSongsItems(its, indexes, [urls |-> <<>>, songs |-> <<>>, song_ids |-> {}]).songs

\* mimeData(indexes): no object for an empty selection (the empty sequence),
\* else the SongMimeData with its songs and the URLs handed to setUrls
mimeData(its, indexes) ==
  IF indexes = <<>> THEN <<>>
  ELSE Let(GetChildSongsItems(its, indexes, [urls |-> <<>>, songs |-> <<>>, song_ids |-> {}]),
           LAMBDA r : <<[urls |-> r.urls, songs |-> r.songs]>>)

----------------------------------------------------------------------------
(* Album artwork and item data *)

\* AlbumCoverLoader::LoadImageAsync: the identifier of the new request.  The
\* identifiers are opaque and one whose result was delivered is not referred
\* to again, so the least identifier not in flight stands for the next one
LoadImageAsync(requests) ==
  CHOOSE n \in 1..(Cardinality(requests) + 1) :
    n \notin requests /\ \A k \in 1..(n - 1) : k \in requests

\* what AlbumIcon hands back when it asks for nothing
NoCover(m, requests) == [m |-> m, requests |-> requests, icon |-> "no_cover_icon_"]

\* AlbumIcon(idx): the members and the requests of the loader after the call,
\* and the icon returned
AlbumIcon(m, requests, idx) ==
  Let(AlbumIconPixmapCacheKey(m, idx), LAMBDA cache_key :
    IF cache_key \in DOMAIN m.pixmap_cache
    THEN [m |-> m, requests |-> requests, icon |-> m.pixmap_cache[cache_key]]
    ELSE IF use_disk_cache_ /\ app_
            /\ AlbumIconPixmapDiskCacheKey(cache_key) \in m.sIconCache
    THEN [m |-> [m EXCEPT !.pixmap_cache = MapPut(@, cache_key, "cached_image")],
          requests |-> requests, icon |-> "cached_image"]
    ELSE IF cache_key \in m.pending_cache_keys_ THEN NoCover(m, requests)
    ELSE IF GetChildSongs(m.items, <<idx>>) = <<>> THEN NoCover(m, requests)
    ELSE
  Let(LoadImageAsync(requests), LAMBDA id :
    NoCover([m EXCEPT !.pending_art_ =
                         MapPut(@, id, [item |-> idx, cache_key |-> cache_key]),
                      !.pending_cache_keys_ = @ \cup {cache_key}],
            requests \cup {id})))

\* the tail of AlbumCoverLoaded caching nothing for a result without a cover
TakeCoverOfSuccess(m, id, result) ==
  Let(m.pending_art_[id].item, LAMBDA item :
  Let(m.pending_art_[id].cache_key, LAMBDA cache_key :
  Let([m EXCEPT !.pending_art_ = MapRemove(@, id),
                !.pending_cache_keys_ = @ \ {cache_key},
                !.pixmap_cache =
                   IF ~result.success \/ result.image_scaled_isNull
                      \/ result.type = "Unset"
                   THEN @ ELSE MapPut(@, cache_key, "image_pixmap"),
                !.sIconCache =
                   IF use_disk_cache_ /\ app_ /\ result.success
                      /\ ~result.image_scaled_isNull
                   THEN @ \cup {AlbumIconPixmapDiskCacheKey(cache_key)} ELSE @],
      LAMBDA m1 :
    IF item = m1.root_ THEN m1
    ELSE Emit(m1, "dataChanged", m1.items[item].parent, Row(m1.items, item)))))

\* the tail of AlbumCoverLoaded, from pending_art_.take(id) on
TakeCover(m, id, result) ==
  Let(m.pending_art_[id].item, LAMBDA item :
  Let(m.pending_art_[id].cache_key, LAMBDA cache_key :
  Let([m EXCEPT !.pending_art_ = MapRemove(@, id),
                !.pending_cache_keys_ = @ \ {cache_key},
                !.pixmap_cache =
                   MapPut(@, cache_key,
                          IF ~result.success \/ result.image_scaled_isNull
                             \/ result.type = "Unset"
                          THEN "no_cover_icon_" ELSE "image_pixmap"),
                !.sIconCache =
                   IF use_disk_cache_ /\ app_ /\ result.success
                      /\ ~result.image_scaled_isNull
                   THEN @ \cup {AlbumIconPixmapDiskCacheKey(cache_key)} ELSE @],
      LAMBDA m1 :
    IF item = m1.root_ THEN m1
    ELSE Emit(m1, "dataChanged", m1.items[item].parent, Row(m1.items, item)))))

\* AlbumCoverLoaded without the test for a request it does not know: take(id)
\* then yields the default entry, whose cache key is empty
AlbumCoverLoadedAnyway(m, id, result) ==
  IF id \in DOMAIN m.pending_art_ THEN TakeCover(m, id, result)
  ELSE [m EXCEPT !.pixmap_cache = MapPut(@, <<>>, "no_cover_icon_")]

\* AlbumCoverLoaded(id, result)
AlbumCoverLoaded(m, id, result) ==
  IF id \notin DOMAIN m.pending_art_ THEN m ELSE TakeCover(m, id, result)

\* data(item, role) for the roles Role_Editable, Qt::DecorationRole,
\* Role_Type and Role_IsDivider
RECURSIVE data(_, _, _)

\* data(item, role) answering true for a Container without looking at the
\* children
dataShallow(its, item, role) ==
  IF role = "Role_Editable" /\ its[item].type = "Container"
  THEN its[item].children # <<>>
  ELSE IF role = "Role_Editable" /\ its[item].type = "Song"
  THEN IsEditable(its[item].metadata)
  ELSE FALSE

data(its, item, role) ==
  CASE role = "Role_Editable" ->
         IF its[item].type = "Container"
         THEN IF its[item].children = <<>> THEN FALSE
              ELSE IF \E i \in 1..Len(its[item].children) :
                        ~data(its, its[item].children[i], role)
              THEN FALSE
              ELSE TRUE
         ELSE IF its[item].type = "Song" THEN IsEditable(its[item].metadata)
         ELSE FALSE
    [] role = "DecorationRole" ->
         IF its[item].type # "Container" THEN "QVariant()"
         ELSE IF IsAlbumGroupBy(GroupByAt(its[item].container_level)) THEN "album_icon_"
         ELSE IF GroupByAt(its[item].container_level) \in {"Artist", "AlbumArtist"}
         THEN "artist_icon_"
         ELSE "QVariant()"
    [] role = "Role_Type" -> its[item].type
    [] role = "Role_IsDivider" -> its[item].type = "Divider"
    [] OTHER -> "QVariant()"

----------------------------------------------------------------------------
(* Update scheduler *)

\* the chunk size of ScheduleUpdate
kChunkSize == 400

\* the loop of ScheduleUpdate, from index i (0-based) on
RECURSIVE EnqueueChunks(_, _, _, _)
EnqueueChunks(queue, type, songs, i) ==
  IF i >= Len(songs) THEN queue
  ELSE LET number == Min(Len(songs) - i, kChunkSize)
           songs_to_queue == SubSeq(songs, i + 1, i + number)
       IN EnqueueChunks(Append(queue, [type |-> type, songs |-> songs_to_queue]),
                        type, songs, i + kChunkSize)

\* ScheduleUpdate enqueueing the whole list as one entry
ScheduleUpdateWhole(queue, type, songs) ==
  IF songs = <<>> THEN queue ELSE Append(queue, [type |-> type, songs |-> songs])

\* updates_.dequeue() taking the newest entry instead of the oldest
DequeueNewest(queue) ==
  [update |-> queue[Len(queue)], queue |-> SubSeq(queue, 1, Len(queue) - 1)]

\* ScheduleUpdate: the queue after the call (the timer is started by the caller's step)
ScheduleUpdate(queue, type, songs) == EnqueueChunks(queue, type, songs, 0)

\* the end of ScheduleUpdate leaving a stopped timer stopped
StartTimerNever(active) == active

\* the end of ScheduleUpdate: timer_update_ is started unless it is active;
\* the value is isActive() after the call
StartTimer(active) == IF ~active THEN TRUE ELSE active

\* updates_.dequeue(): the entry taken and the queue left
Dequeue(queue) == [update |-> Head(queue), queue |-> Tail(queue)]

----------------------------------------------------------------------------
(* The songs and configurations explored *)

\* song 1: Bach, "Concertos", 1994
Song1 ==
  [DefaultSong EXCEPT
     !.editable = TRUE,
     !.id = 1, !.title = <<65, 105, 114>>,                                \* "Air"
     !.artist = <<66, 97, 99, 104>>,                                      \* "Bach"
     !.album = <<67, 111, 110, 99, 101, 114, 116, 111, 115>>,             \* "Concertos"
     !.track = 1, !.disc = 1, !.year = 1994,
     !.genre = <<66, 97, 114, 111, 113, 117, 101>>,                       \* "Baroque"
     !.composer = <<66, 97, 99, 104>>,                                    \* "Bach"
     !.filetype = "FLAC", !.samplerate = 44100, !.bitdepth = 16, !.bitrate = 900,
     !.url = <<117, 49>>, !.ctime = 990, !.rating = 0]

\* song 1 after its album tag was edited to "The Suites"
Song1Album == [Song1 EXCEPT !.album = <<84, 104, 101, 32, 83, 117, 105, 116, 101, 115>>]

\* song 1 after only its rating and play count changed
Song1Rating == [Song1 EXCEPT !.rating = 5, !.playcount = 1]

\* song 2: an artist tag that reads "Various artists", not a compilation, an old file
Song2 ==
  [DefaultSong EXCEPT
     !.editable = TRUE,
     !.id = 2, !.title = <<71, 111, 108, 100>>,                           \* "Gold"
     !.artist = kVariousArtists,
     !.album = <<72, 105, 116, 115>>,                                     \* "Hits"
     !.track = 1, !.year = 1996,
     !.genre = <<66, 97, 114, 111, 113, 117, 101>>,                       \* "Baroque"
     !.composer = <<66, 108, 117, 101, 115>>,                             \* "Blues"
     !.filetype = "MPEG", !.samplerate = 48000, !.bitrate = 320,
     !.url = <<117, 50>>, !.ctime = 100, !.rating = 0]

\* song 3: a compilation track of the album "Hits"
Song3 ==
  [DefaultSong EXCEPT
     !.editable = TRUE,
     !.id = 3, !.title = <<68, 97, 110, 99, 101>>,                        \* "Dance"
     !.artist = <<65, 98, 98, 97>>,                                       \* "Abba"
     !.album = <<72, 105, 116, 115>>,                                     \* "Hits"
     !.track = 2, !.year = 1969,
     !.genre = <<201, 108, 97, 110>>,                                     \* "Elan", E acute
     !.compilation = TRUE,
     !.url = <<117, 51>>, !.ctime = 990, !.rating = 0]

\* song 4: the second track of the album of song 1
Song4 ==
  [Song1 EXCEPT !.id = 4, !.title = <<66, 111, 117, 114, 101, 101>>,      \* "Bouree"
                !.track = 2, !.url = <<117, 52>>]

\* song 5: artist "Jay-Z", album "Hits"
Song5 ==
  [DefaultSong EXCEPT
     !.editable = TRUE,
     !.id = 5, !.title = <<69, 99, 104, 111>>,                            \* "Echo"
     !.artist = <<74, 97, 121, 45, 90>>,                                  \* "Jay-Z"
     !.album = <<72, 105, 116, 115>>,                                     \* "Hits"
     !.track = 1, !.year = 2001,
     !.genre = <<82, 97, 112>>,                                           \* "Rap"
     !.url = <<117, 53>>, !.ctime = 990, !.rating = 0]

\* song 6: artist "Jay", album "Z-Hits"
Song6 ==
  [DefaultSong EXCEPT
     !.editable = TRUE,
     !.id = 6, !.title = <<70, 97, 100, 111>>,                            \* "Fado"
     !.artist = <<74, 97, 121>>,                                          \* "Jay"
     !.album = <<90, 45, 72, 105, 116, 115>>,                             \* "Z-Hits"
     !.track = 1, !.year = 2002,
     !.genre = <<82, 97, 112>>,                                           \* "Rap"
     !.url = <<117, 54>>, !.ctime = 990, !.rating = 0]

\* song 7: a file of 8000 Hz by the artist "bach", in lower case
Song7 ==
  [Song1 EXCEPT !.id = 7, !.title = <<71, 105, 103, 117, 101>>,           \* "Gigue"
                !.artist = <<98, 97, 99, 104>>,                            \* "bach"
                !.track = 3, !.samplerate = 8000, !.url = <<117, 55>>]

\* every criterion alone at level 0
SingleGroupings ==
  {<<GroupByValues[i], "None", "None">> : i \in 2..Len(GroupByValues)}

\* the default grouping and other multi-level groupings
NestedGroupings ==
  {<<"AlbumArtist", "AlbumDisc", "None">>, <<"Artist", "Album", "None">>,
   <<"Genre", "Album", "None">>, <<"Genre", "Artist", "Album">>,
   <<"None", "None", "None">>}

\* CollectionFilterOptions with and without a maximum age
NoFilter == [max_age |-> -1]
AgeFilter == [max_age |-> 500]

\* the members a tree operation may change, as one record
Cur ==
  [root_ |-> root_, items |-> items, songs_ |-> songs_, song_nodes_ |-> song_nodes_,
   container_nodes_ |-> container_nodes_, divider_nodes_ |-> divider_nodes_,
   pending_art_ |-> pending_art_, pending_cache_keys_ |-> pending_cache_keys_,
   pixmap_cache |-> pixmap_cache, sIconCache |-> sIconCache, emitted |-> <<>>]

\* the members take the values of the record m
Becomes(m) ==
  /\ root_' = m.root_
  /\ items' = m.items
  /\ songs_' = m.songs_
  /\ song_nodes_' = m.song_nodes_
  /\ container_nodes_' = m.container_nodes_
  /\ divider_nodes_' = m.divider_nodes_
  /\ pending_art_' = m.pending_art_
  /\ pending_cache_keys_' = m.pending_cache_keys_
  /\ pixmap_cache' = m.pixmap_cache
  /\ sIconCache' = m.sIconCache
  /\ emitted' = m.emitted

\* the items of the tree in preorder, from the item id down
RECURSIVE Preorder(_, _)
Preorder(its, id) ==
  LET RECURSIVE Below(_)
      Below(children) ==
        IF children = <<>> THEN <<>>
        ELSE Preorder(its, Head(children)) \o Below(Tail(children))
  IN <<id>> \o Below(its[id].children)

\* the value a pointer to a destroyed item is given
Gone == -1

\* Item addresses carry no meaning beyond identity: nothing in the model reads
\* one as a number except the QSet order of RemoveSongs, whose result does not
\* depend on it.  Renumber gives the heap left by a handler its canonical
\* names, the position of each item in the preorder of the tree, in the
\* items, in every table and in the signals; two heaps that differ only in
\* the addresses the allocator returned become the same state.
Renumber(m) ==
  LET order == Preorder(m.items, m.root_)
      To(a) == IF a = NULL THEN NULL
               ELSE IF a \in DOMAIN m.items THEN IndexOf(order, a)
               ELSE Gone
  IN [root_ |-> To(m.root_),
      items |-> [n \in 1..Len(order) |->
                   LET it == m.items[order[n]]
                   IN [it EXCEPT !.parent = To(it.parent),
                                 !.children = [i \in 1..Len(it.children) |-> To(it.children[i])],
                                 !.compilation_artist_node_ = To(it.compilation_artist_node_)]],
      songs_ |-> m.songs_,
      song_nodes_ |-> [k \in DOMAIN m.song_nodes_ |-> To(m.song_nodes_[k])],
      container_nodes_ |-> [l \in 1..3 |->
                              [k \in DOMAIN m.container_nodes_[l] |->
                                 To(m.container_nodes_[l][k])]],
      divider_nodes_ |-> [k \in DOMAIN m.divider_nodes_ |-> To(m.divider_nodes_[k])],
      pending_art_ |-> [k \in DOMAIN m.pending_art_ |->
                          [m.pending_art_[k] EXCEPT !.item = To(m.pending_art_[k].item)]],
      pending_cache_keys_ |-> m.pending_cache_keys_,
      pixmap_cache |-> m.pixmap_cache,
      sIconCache |-> m.sIconCache,
      emitted |-> [i \in 1..Len(m.emitted) |->
                     [m.emitted[i] EXCEPT !.parent = To(m.emitted[i].parent)]]]

\* the call a step makes: a slot with its argument, or the update a tick dispatches
Call(op, type, songs) == [op |-> op, type |-> type, songs |-> songs]

----------------------------------------------------------------------------
(* State machine *)

\* The model after construction and a first reload of an empty collection
\* under the chosen settings: a root without children, empty tables, an empty
\* queue, the update timer stopped.
InitModel(groupings, dividers, filters, apps, disk_caches) ==
  /\ root_ = 1
  /\ items = [x \in {1} |-> NewItem("Root", NULL)]
  /\ songs_ = <<>>
  /\ song_nodes_ = <<>>
  /\ container_nodes_ = << <<>>, <<>>, <<>> >>
  /\ divider_nodes_ = <<>>
  /\ pending_art_ = <<>>
  /\ pending_cache_keys_ = {}
  /\ pixmap_cache = <<>>
  /\ sIconCache = {}
  /\ app_ \in apps
  /\ use_pretty_covers_ = TRUE
  /\ use_disk_cache_ \in disk_caches
  /\ init_task_id_ = -1
  /\ task_manager = {}
  /\ album_cover_loader = {}
  /\ updates_ = <<>>
  /\ timer_update_ = FALSE
  /\ timer_reset_ = 0
  /\ watchers = <<>>
  /\ db = <<>>
  /\ group_by_ \in groupings
  /\ separate_albums_by_grouping_ = FALSE
  /\ show_dividers_ \in dividers
  /\ sort_skips_articles_ = TRUE
  /\ filter_options_ \in filters
  /\ emitted = <<>>
  /\ last = Call("None", "None", <<>>)

\* the model constructed without an Application (app_ is null): no task is
\* shown for a reload and no disk cache is made
InitWith(groupings, dividers, filters) ==
  InitModel(groupings, dividers, filters, {FALSE}, {FALSE})

\* bound on the queue length at which the backend still delivers a notification
MaxQueue == 2

\* what a SongsChanged report found: the stored record of each tracked song it names
StoredRecords(songs) ==
  [id \in {songs[i].id : i \in 1..Len(songs)} \cap DOMAIN song_nodes_ |->
     items[song_nodes_[id]].metadata]

NoReport == [songs |-> <<>>, before |-> <<>>]

\* a slot that forwards to ScheduleUpdate
Schedule(op, type, songs) ==
  /\ updates_' = ScheduleUpdate(updates_, type, songs)
  /\ timer_update_' = StartTimer(timer_update_)
  /\ emitted' = <<>>
  /\ last' = Call(op, type, songs)
  /\ reported' = IF op = "SongsChanged" /\ updates_ = <<>>
                 THEN [songs |-> songs, before |-> StoredRecords(songs)]
                 ELSE NoReport
  /\ UNCHANGED <<treevars, confvars, appvars>>

SongsAdded(songs) ==
  Schedule("SongsAdded", "Add", songs) /\ UNCHANGED loadvars

SongsRemoved(songs) ==
  Schedule("SongsRemoved", "Remove", songs) /\ UNCHANGED loadvars

SongsChanged(songs) ==
  Schedule("SongsChanged", "ReAddOrUpdate", songs) /\ UNCHANGED loadvars

\* timer_update_ fires
ProcessUpdate ==
  /\ timer_update_
  /\ UNCHANGED <<confvars, loadvars, appvars, reported>>
  /\ IF updates_ = <<>>
     THEN /\ timer_update_' = FALSE
          /\ emitted' = <<>>
          /\ last' = Call("ProcessUpdate", "None", <<>>)
          /\ UNCHANGED <<treevars, updates_>>
     ELSE LET update == Dequeue(updates_).update
              queue == Dequeue(updates_).queue
              running == IF queue = <<>> THEN FALSE ELSE timer_update_
          IN /\ last' = Call("ProcessUpdate", update.type, update.songs)
             /\ CASE update.type = "Add" ->
                       /\ Becomes(Renumber(AddSongs(Cur, update.songs)))
                       /\ updates_' = queue
                       /\ timer_update_' = running
                  [] update.type = "Remove" ->
                       /\ Becomes(Renumber(RemoveSongs(Cur, update.songs)))
                       /\ updates_' = queue
                       /\ timer_update_' = running
                  [] update.type = "ReAddOrUpdate" ->
                       /\ Becomes(Cur)
                       /\ timer_update_' = StartTimer(StartTimer(StartTimer(running)))
                       /\ updates_' =
                            Let(ReAddOrUpdate(Cur, update.songs,
                                  [songs_added |-> <<>>, songs_removed |-> <<>>,
                                   songs_updated |-> <<>>]), LAMBDA r :
                              ScheduleUpdate(
                                ScheduleUpdate(
                                  ScheduleUpdate(queue, "Update", r.songs_updated),
                                  "Remove", r.songs_removed),
                                "Add", r.songs_added))
                  [] update.type = "Update" ->
                       /\ Becomes(Renumber(UpdateSongs(Cur, update.songs)))
                       /\ updates_' = queue
                       /\ timer_update_' = running

----------------------------------------------------------------------------
(* Full reload: ScheduleReset, Reload, the background query and its callback *)

\* timer_reset_->setInterval(300)
kResetInterval == 300

\* the time that passes in one step of the clock, in milliseconds
TimeStep == 100

\* ScheduleReset starting the timer even while it is active
ScheduleResetRestart(timer) == kResetInterval

\* ScheduleReset: the time left on timer_reset_ after the call
ScheduleReset(timer) == IF timer = 0 THEN kResetInterval ELSE timer

\* Clear without pending_art_.clear() and pending_cache_keys_.clear()
ClearKeepingArt(m) ==
  [m EXCEPT !.items = IF m.root_ # NULL
                      THEN [x \in (DOMAIN @) \ Subtree(@, m.root_) |-> @[x]]
                      ELSE @,
            !.root_ = NULL,
            !.song_nodes_ = <<>>,
            !.container_nodes_ = << <<>>, <<>>, <<>> >>,
            !.divider_nodes_ = <<>>]

\* Clear: the tree and the lookup tables are dropped
Clear(m) ==
  [m EXCEPT !.items = IF m.root_ # NULL
                      THEN [x \in (DOMAIN @) \ Subtree(@, m.root_) |-> @[x]]
                      ELSE @,
            !.root_ = NULL,
            !.song_nodes_ = <<>>,
            !.container_nodes_ = << <<>>, <<>>, <<>> >>,
            !.divider_nodes_ = <<>>,
            !.pending_art_ = <<>>,
            !.pending_cache_keys_ = {}]

\* BeginReset: beginResetModel, Clear, a new root
BeginReset(m) ==
  Let(Clear(Emit(m, "modelAboutToBeReset", NULL, -1)), LAMBDA m1 :
  Let(NewAddress(m1.items), LAMBDA id :
    [m1 EXCEPT !.items = MapPut(@, id, NewItem("Root", NULL)), !.root_ = id]))

\* EndReset: endResetModel
EndReset(m) == Emit(m, "modelReset", NULL, -1)

\* tr("Loading...")
kLoadingText == <<76, 111, 97, 100, 105, 110, 103, 46, 46, 46>>

\* the watcher StartLoadSongsFromSql creates: the filter options are copied
\* into the query, which has not run yet
NewWatcher(filter) == [filter_options |-> filter, done |-> FALSE, songs |-> <<>>]

\* the tree members after Reload: the reset, the loading indicator under the
\* new root, and songs_.clear() of StartLoadSongsFromSql
ReloadTree(m) ==
  Let(BeginReset(m), LAMBDA m1 :
    [EndReset([m1 EXCEPT !.items =
                 LinkItem(@, NewAddress(@),
                          [NewItem("LoadingIndicator", m1.root_)
                             EXCEPT !.display_text = kLoadingText])])
       EXCEPT !.songs_ = <<>>])

\* the rows a filtered CollectionQuery returns, from identifier i on, in the
\* order of the identifiers
RECURSIVE QueryRows(_, _, _)
QueryRows(table, filter, i) ==
  IF \A id \in DOMAIN table : id < i THEN <<>>
  ELSE IF i \in DOMAIN table /\ Matches(filter, table[i])
    THEN <<table[i]>> \o QueryRows(table, filter, i + 1)
    ELSE QueryRows(table, filter, i + 1)

\* LoadSongsFromSql: the songs of the backend that the filter options select
LoadSongsFromSql(table, filter) == QueryRows(table, filter, 0)

\* TaskManager::StartTask: the identifier of the new task.  The identifiers
\* are opaque and a finished one is not referred to again, so the least
\* identifier not in use stands for the next one
StartTask(tasks) ==
  CHOOSE n \in 1..(Cardinality(tasks) + 1) :
    n \notin tasks /\ \A k \in 1..(n - 1) : k \in tasks

\* a sequence without its i-th element
RemoveAt(seq, i) == SubSeq(seq, 1, i - 1) \o SubSeq(seq, i + 1, Len(seq))

\* Reset; Init and the DatabaseReset signal of the backend run the same code,
\* a call of ScheduleReset
Reset ==
  /\ timer_reset_' = ScheduleReset(timer_reset_)
  /\ emitted' = <<>>
  /\ last' = Call("Reset", "None", <<>>)
  /\ reported' = NoReport
  /\ UNCHANGED <<treevars, appvars, confvars, watchers, db, updates_, timer_update_>>

\* set_show_dividers
set_show_dividers(show_dividers) ==
  /\ show_dividers_' = show_dividers
  /\ timer_reset_' = IF show_dividers # show_dividers_
                     THEN ScheduleReset(timer_reset_) ELSE timer_reset_
  /\ emitted' = <<>>
  /\ last' = Call("set_show_dividers", "None", <<>>)
  /\ reported' = NoReport
  /\ UNCHANGED <<treevars, appvars, group_by_, separate_albums_by_grouping_,
                 sort_skips_articles_,
                 filter_options_, watchers, db, updates_, timer_update_>>

\* set_sort_skips_articles
set_sort_skips_articles(sort_skips_articles) ==
  /\ sort_skips_articles_' = sort_skips_articles
  /\ timer_reset_' = IF sort_skips_articles # sort_skips_articles_
                     THEN ScheduleReset(timer_reset_) ELSE timer_reset_
  /\ emitted' = <<>>
  /\ last' = Call("set_sort_skips_articles", "None", <<>>)
  /\ reported' = NoReport
  /\ UNCHANGED <<treevars, appvars, group_by_, separate_albums_by_grouping_,
                 show_dividers_,
                 filter_options_, watchers, db, updates_, timer_update_>>

\* SetFilterAge
SetFilterAge(filter_age) ==
  /\ filter_options_' = [filter_options_ EXCEPT !.max_age = filter_age]
  /\ timer_reset_' = ScheduleReset(timer_reset_)
  /\ emitted' = <<>>
  /\ last' = Call("SetFilterAge", "None", <<>>)
  /\ reported' = NoReport
  /\ UNCHANGED <<treevars, appvars, group_by_, separate_albums_by_grouping_,
                 show_dividers_,
                 sort_skips_articles_, watchers, db, updates_, timer_update_>>

\* SetGroupBy(g, std::nullopt)
SetGroupBy(g) ==
  /\ group_by_' = g
  /\ timer_reset_' = ScheduleReset(timer_reset_)
  /\ emitted' = <<>>
  /\ last' = Call("SetGroupBy", "None", <<>>)
  /\ reported' = NoReport
  /\ UNCHANGED <<treevars, appvars, separate_albums_by_grouping_, show_dividers_,
                 sort_skips_articles_, filter_options_, watchers, db, updates_,
                 timer_update_>>

\* time passes while timer_reset_ is pending and not yet due
Tick ==
  /\ timer_reset_ > TimeStep
  /\ timer_reset_' = timer_reset_ - TimeStep
  /\ emitted' = <<>>
  /\ last' = Call("Tick", "None", <<>>)
  /\ UNCHANGED <<treevars, appvars, confvars, watchers, db, updates_, timer_update_, reported>>

\* timer_reset_ (single shot) fires: Reload
Reload ==
  /\ 0 < timer_reset_
  /\ timer_reset_ <= TimeStep
  /\ timer_reset_' = 0
  /\ Becomes(Renumber(ReloadTree(Cur)))
  /\ IF app_
     THEN /\ init_task_id_' = StartTask(task_manager)
          /\ task_manager' = task_manager \cup {StartTask(task_manager)}
     ELSE UNCHANGED <<init_task_id_, task_manager>>
  /\ watchers' = Append(watchers, NewWatcher(filter_options_))
  /\ last' = Call("Reload", "None", <<>>)
  /\ reported' = NoReport
  /\ UNCHANGED <<confvars, db, updates_, timer_update_, app_, use_pretty_covers_,
                 use_disk_cache_, album_cover_loader>>

\* the background thread of the i-th watcher runs its query
RunQuery(i) ==
  /\ i \in 1..Len(watchers)
  /\ ~watchers[i].done
  /\ watchers' = [watchers EXCEPT
                    ![i].done = TRUE,
                    ![i].songs = LoadSongsFromSql(db, watchers[i].filter_options)]
  /\ emitted' = <<>>
  /\ last' = Call("LoadSongsFromSql", "None", <<>>)
  /\ UNCHANGED <<treevars, appvars, confvars, timer_reset_, db, updates_, timer_update_, reported>>

\* the finished signal of the i-th watcher: LoadSongsFromSqlFinished
LoadSongsFromSqlFinished(i) ==
  /\ i \in 1..Len(watchers)
  /\ watchers[i].done
  /\ Becomes(Renumber(EndReset(BeginReset(Cur))))
  /\ updates_' = ScheduleUpdate(updates_, "Add", watchers[i].songs)
  /\ timer_update_' = StartTimer(timer_update_)
  /\ watchers' = RemoveAt(watchers, i)
  /\ task_manager' = IF init_task_id_ # -1 /\ app_
                     THEN task_manager \ {init_task_id_} ELSE task_manager
  /\ init_task_id_' = -1
  /\ last' = Call("LoadSongsFromSqlFinished", "Add", watchers[i].songs)
  /\ reported' = NoReport
  /\ UNCHANGED <<confvars, timer_reset_, db, app_, use_pretty_covers_, use_disk_cache_,
                 album_cover_loader>>

\* a view asks for the songs of a selection: GetChildSongs(indexes), which is
\* const; the step records the selection and the list returned
GetChildSongsCall(indexes) ==
  /\ last' = [op |-> "GetChildSongs", type |-> "None",
              songs |-> GetChildSongs(items, indexes), indexes |-> indexes]
  /\ emitted' = <<>>
  /\ UNCHANGED <<treevars, appvars, confvars, loadvars, updates_, timer_update_, reported>>

\* a view starts a drag of a selection: mimeData(indexes), which is const; the
\* step records the selection and the object returned
MimeDataCall(indexes) ==
  /\ last' = [op |-> "mimeData", type |-> "None", songs |-> <<>>, indexes |-> indexes,
              value |-> mimeData(items, indexes)]
  /\ emitted' = <<>>
  /\ UNCHANGED <<treevars, appvars, confvars, loadvars, updates_, timer_update_, reported>>

\* a view asks for the data of an item: data(idx, role), which answers the
\* decoration of an album Container with AlbumIcon when pretty covers are on
DataRequest(idx, role) ==
  /\ idx \in DOMAIN items
  /\ IF use_pretty_covers_ /\ role = "DecorationRole" /\ items[idx].type = "Container"
        /\ IsAlbumGroupBy(GroupByAt(items[idx].container_level))
     THEN \E r \in {AlbumIcon(Cur, album_cover_loader, idx)} :
            /\ Becomes(r.m)
            /\ album_cover_loader' = r.requests
            /\ last' = [op |-> "data", type |-> role, songs |-> <<>>, idx |-> idx,
                        value |-> r.icon]
     ELSE /\ emitted' = <<>>
          /\ last' = [op |-> "data", type |-> role, songs |-> <<>>, idx |-> idx,
                      value |-> data(items, idx, role)]
          /\ UNCHANGED <<treevars, album_cover_loader>>
  /\ UNCHANGED <<confvars, loadvars, app_, use_pretty_covers_, use_disk_cache_,
                 init_task_id_, task_manager, updates_, timer_update_, reported>>

\* the results the cover loader delivers: a cover, a failure, a success
\* without an image, and an image of no cover type
CoverResults ==
  {[success |-> TRUE, image_scaled_isNull |-> FALSE, type |-> "Manual"],
   [success |-> FALSE, image_scaled_isNull |-> TRUE, type |-> "Unset"],
   [success |-> TRUE, image_scaled_isNull |-> TRUE, type |-> "Manual"],
   [success |-> TRUE, image_scaled_isNull |-> FALSE, type |-> "Unset"]}

\* the cover loader emits AlbumCoverLoaded(id, result), for a request of this
\* model or for a request somebody else made
CoverLoaderFinishes(id, result) ==
  /\ id \in album_cover_loader \cup {LoadImageAsync(album_cover_loader)}
  /\ album_cover_loader' = album_cover_loader \ {id}
  /\ Becomes(AlbumCoverLoaded(Cur, id, result))
  /\ last' = [op |-> "AlbumCoverLoaded", type |-> "None", songs |-> <<>>, id |-> id,
              result |-> result, issued |-> id \in album_cover_loader]
  /\ UNCHANGED <<confvars, loadvars, app_, use_pretty_covers_, use_disk_cache_,
                 init_task_id_, task_manager, updates_, timer_update_, reported>>

\* the backend stores a song and reports it: SongsAdded
BackendAdds(song) ==
  /\ song.id \notin DOMAIN db
  /\ db' = MapPut(db, song.id, song)
  /\ Schedule("SongsAdded", "Add", <<song>>)
  /\ UNCHANGED <<timer_reset_, watchers>>

\* the backend deletes a song and reports it: SongsDeleted
BackendDeletes(id) ==
  /\ id \in DOMAIN db
  /\ db' = MapRemove(db, id)
  /\ Schedule("SongsRemoved", "Remove", <<db[id]>>)
  /\ UNCHANGED <<timer_reset_, watchers>>

\* the backend changes the tags of a stored song and reports it: SongsChanged
BackendChanges(song) ==
  /\ song.id \in DOMAIN db
  /\ db[song.id] # song
  /\ db' = MapPut(db, song.id, song)
  /\ Schedule("SongsChanged", "ReAddOrUpdate", <<song>>)
  /\ UNCHANGED <<timer_reset_, watchers>>

(* Spec: the scheduler with the backend's three notifications; a notification *)
(* is delivered while fewer than MaxQueue entries wait.                      *)

\* the song lists the backend reports
SongLists ==
  {<<Song1, Song3>>, <<Song1Album>>, <<Song1Rating>>}

Init ==
  /\ InitWith({<<"AlbumArtist", "AlbumDisc", "None">>, <<"Genre", "Album", "None">>},
              {TRUE}, {NoFilter})
  /\ reported = NoReport

Next ==
  \/ \E songs \in SongLists : Len(updates_) < MaxQueue /\ SongsAdded(songs)
  \/ \E songs \in SongLists : Len(updates_) < MaxQueue /\ SongsRemoved(songs)
  \/ \E songs \in SongLists : Len(updates_) < MaxQueue /\ SongsChanged(songs)
  \/ ProcessUpdate

Spec == Init /\ [][Next]_vars

(* SpecFair: Spec with the update timer firing as long as it is running.   *)
(* ProcessUpdate is enabled exactly when timer_update_ is running, every     *)
(* step of it changes the state, and no other step leaves "ProcessUpdate" in *)
(* last; TimerFairness is WF_vars(ProcessUpdate) written with these facts.   *)
TimerFairness ==
  []<>(~timer_update_) \/ []<><<last'.op = "ProcessUpdate">>_vars

SpecFair == Init /\ [][Next]_vars /\ TimerFairness

(* SpecTree: every grouping criterion; the backend reports additions and     *)
(* removals one at a time, each after the queue has drained.                 *)

TreeLists ==
  {<<Song1>>, <<Song3>>, <<Song1, Song2>>, <<Song2, Song3>>}

InitTree ==
  /\ \/ InitWith(SingleGroupings \cup NestedGroupings, {TRUE}, {NoFilter})
     \/ InitWith(NestedGroupings, {FALSE}, {NoFilter})
     \/ InitWith({<<"AlbumArtist", "AlbumDisc", "None">>, <<"Year", "None", "None">>},
                 {TRUE}, {AgeFilter})
  /\ reported = NoReport

NextTree ==
  \/ \E songs \in TreeLists : updates_ = <<>> /\ ~timer_update_ /\ SongsAdded(songs)
  \/ \E songs \in TreeLists : updates_ = <<>> /\ ~timer_update_ /\ SongsRemoved(songs)
  \/ ProcessUpdate

SpecTree == InitTree /\ [][NextTree]_vars

(* SpecChunk: ScheduleUpdate on long song lists *)

\* a list of n songs with the identifiers 1..n
Batch(n) == [i \in 1..n |-> [DefaultSong EXCEPT !.id = i]]

\* list lengths around the multiples of the chunk size
BatchSizes == {0, 1, 2, 399, 400, 401, 799, 800, 801, 1000, 1200, 1201}

InitChunk ==
  /\ InitWith({<<"AlbumArtist", "AlbumDisc", "None">>}, {TRUE}, {NoFilter})
  /\ reported = NoReport

NextChunk ==
  \/ \E n \in BatchSizes : Len(updates_) < MaxQueue /\ SongsAdded(Batch(n))
  \/ \E n \in BatchSizes : Len(updates_) < MaxQueue /\ SongsRemoved(Batch(n))
  \/ \E n \in BatchSizes : Len(updates_) < MaxQueue /\ SongsChanged(Batch(n))

SpecChunk == InitChunk /\ [][NextChunk]_vars

(* SpecAdd: the tree states that additions alone reach *)

NextAdd ==
  \/ \E songs \in TreeLists : updates_ = <<>> /\ ~timer_update_ /\ SongsAdded(songs)
  \/ ProcessUpdate

SpecAdd == InitTree /\ [][NextAdd]_vars

(* SpecReset: the reload controller and the settings that schedule a        *)
(* reload; the model has been constructed, the backend holds no song.        *)

\* bound on the number of reload queries in flight at which the reset timer
\* is still let fire
MaxWatchers == 2

InitReset ==
  /\ InitWith({<<"AlbumArtist", "AlbumDisc", "None">>}, {TRUE}, {NoFilter})
  /\ reported = NoReport

NextReset ==
  \/ Reset
  \/ \E b \in BOOLEAN : set_show_dividers(b)
  \/ \E b \in BOOLEAN : set_sort_skips_articles(b)
  \/ \E age \in {NoFilter.max_age, AgeFilter.max_age} : SetFilterAge(age)
  \/ \E g \in {<<"AlbumArtist", "AlbumDisc", "None">>, <<"Genre", "Album", "None">>} :
       SetGroupBy(g)
  \/ Tick
  \/ Len(watchers) < MaxWatchers /\ Reload
  \/ \E i \in 1..Len(watchers) : RunQuery(i)
  \/ \E i \in 1..Len(watchers) : Len(updates_) < MaxQueue /\ LoadSongsFromSqlFinished(i)
  \/ ProcessUpdate

SpecReset == InitReset /\ [][NextReset]_vars

(* SpecReload: reloads next to the backend's notifications, under a filter   *)
(* with a maximum age, which song 2 does not pass.                           *)

\* the songs the backend comes to hold
StoreSongs == {Song1, Song2}

\* the records of a stored song after an edit of its tags
EditedSongs == {Song1, Song1Album}

InitReload ==
  /\ InitWith({<<"AlbumArtist", "AlbumDisc", "None">>}, {TRUE}, {AgeFilter})
  /\ reported = NoReport

NextReload ==
  \/ Reset
  \/ Tick
  \/ Len(watchers) < MaxWatchers /\ Reload
  \/ \E i \in 1..Len(watchers) : RunQuery(i)
  \/ \E i \in 1..Len(watchers) : Len(updates_) < MaxQueue /\ LoadSongsFromSqlFinished(i)
  \/ \E song \in StoreSongs : Len(updates_) < MaxQueue /\ BackendAdds(song)
  \/ \E id \in DOMAIN db : Len(updates_) < MaxQueue /\ BackendDeletes(id)
  \/ \E song \in EditedSongs : Len(updates_) < MaxQueue /\ BackendChanges(song)
  \/ ProcessUpdate

SpecReload == InitReload /\ [][NextReload]_vars

(* SpecKeys: additions of songs whose tags contain the separator of the     *)
(* container keys, of two tracks of one album, and of songs whose sort      *)
(* texts are numbers of different lengths or differ in case only            *)

KeyLists ==
  {<<Song1, Song4>>, <<Song4>>, <<Song5, Song6>>, <<Song6>>, <<Song7>>}

InitKeys ==
  /\ \/ InitWith(NestedGroupings \cup {<<"Artist", "None", "None">>}, {TRUE}, {NoFilter})
     \/ InitWith({<<"Samplerate", "None", "None">>, <<"Artist", "None", "None">>},
                 {FALSE}, {NoFilter})
  /\ reported = NoReport

NextKeys ==
  \/ \E songs \in KeyLists : updates_ = <<>> /\ ~timer_update_ /\ SongsAdded(songs)
  \/ ProcessUpdate

SpecKeys == InitKeys /\ [][NextKeys]_vars

(* SpecArt: a view asks for the decoration of the items while songs of two    *)
(* albums with one title are added and removed, covers arrive and the tree   *)
(* is reloaded                                                               *)

\* song 8: song 1 on another release of the album, which has an album id
Song8 ==
  [Song1 EXCEPT !.id = 8, !.album_id = <<120>>, !.track = 4, !.url = <<117, 56>>]

\* bound on the number of cover requests in flight
MaxRequests == 2

ArtLists == {<<Song1>>, <<Song8>>}

InitArt ==
  /\ InitModel({<<"AlbumArtist", "AlbumDisc", "None">>}, {TRUE}, {NoFilter}, {TRUE}, BOOLEAN)
  /\ reported = NoReport

NextArt ==
  \/ \E songs \in ArtLists : updates_ = <<>> /\ SongsAdded(songs)
  \/ \E songs \in ArtLists : updates_ = <<>> /\ SongsRemoved(songs)
  \/ ProcessUpdate
  \/ \E idx \in DOMAIN items :
       Cardinality(album_cover_loader) < MaxRequests /\ DataRequest(idx, "DecorationRole")
  \/ \E id \in 1..(MaxRequests + 1), result \in CoverResults : CoverLoaderFinishes(id, result)
  \/ watchers = <<>> /\ updates_ = <<>> /\ Reset
  \/ Tick
  \/ Reload
  \/ \E i \in 1..Len(watchers) : RunQuery(i)
  \/ \E i \in 1..Len(watchers) : LoadSongsFromSqlFinished(i)

SpecArt == InitArt /\ [][NextArt]_vars

(* SpecData: a view asks whether the items are editable, in trees with a    *)
(* song that is not editable, with a Container left without children and     *)
(* with the loading item                                                     *)

\* song 9: a second track of the album of song 1, from a file that cannot be edited
Song9 ==
  [Song1 EXCEPT !.id = 9, !.title = <<71, 105, 103, 117, 101>>,           \* "Gigue"
                !.track = 3, !.url = <<117, 57>>, !.editable = FALSE]

DataLists == {<<Song1>>, <<Song9>>, <<Song3>>, <<Song5, Song6>>}

DataRoles == {"Role_Editable", "Role_IsDivider"}

InitData ==
  /\ InitWith({<<"AlbumArtist", "AlbumDisc", "None">>}, {TRUE}, {NoFilter})
  /\ reported = NoReport

NextData ==
  \/ \E songs \in DataLists : updates_ = <<>> /\ ~timer_update_ /\ SongsAdded(songs)
  \/ ProcessUpdate
  \/ watchers = <<>> /\ updates_ = <<>> /\ Reset
  \/ Tick
  \/ Reload
  \/ \E i \in 1..Len(watchers) : RunQuery(i)
  \/ \E i \in 1..Len(watchers) : LoadSongsFromSqlFinished(i)
  \/ \E idx \in DOMAIN items, role \in DataRoles :
       updates_ = <<>> /\ timer_reset_ = 0 /\ DataRequest(idx, role)

SpecData == InitData /\ [][NextData]_vars

(* SpecTasks: reloads of a model that has an Application, whose task manager *)
(* shows a task for each reload                                              *)

\* bound on the number of tasks shown at a time
MaxTasks == 3

InitTasks ==
  /\ InitModel({<<"AlbumArtist", "AlbumDisc", "None">>}, {TRUE}, {NoFilter, AgeFilter},
               {TRUE}, BOOLEAN)
  /\ reported = NoReport

NextTasks ==
  \/ Reset
  \/ Tick
  \/ Len(watchers) < MaxWatchers /\ Cardinality(task_manager) < MaxTasks /\ Reload
  \/ \E i \in 1..Len(watchers) : RunQuery(i)
  \/ \E i \in 1..Len(watchers) : Len(updates_) < MaxQueue /\ LoadSongsFromSqlFinished(i)
  \/ ProcessUpdate

SpecTasks == InitTasks /\ [][NextTasks]_vars

(* SpecRegroup: the grouping is changed while the backend reports songs      *)

RegroupLists == {<<Song1>>, <<Song2>>}

Regroupings == {<<"AlbumArtist", "AlbumDisc", "None">>, <<"Genre", "Album", "None">>}

InitRegroup ==
  /\ InitWith({<<"AlbumArtist", "AlbumDisc", "None">>}, {TRUE}, {NoFilter})
  /\ reported = NoReport

NextRegroup ==
  \/ \E songs \in RegroupLists : updates_ = <<>> /\ SongsAdded(songs)
  \/ \E songs \in RegroupLists : updates_ = <<>> /\ SongsRemoved(songs)
  \/ ProcessUpdate
  \/ \E g \in Regroupings : timer_reset_ = 0 /\ watchers = <<>> /\ SetGroupBy(g)
  \/ Tick
  \/ Reload
  \/ \E i \in 1..Len(watchers) : RunQuery(i)
  \/ \E i \in 1..Len(watchers) : LoadSongsFromSqlFinished(i)

SpecRegroup == InitRegroup /\ [][NextRegroup]_vars

(* SpecSelect: selections of one or two nodes of the trees that additions   *)
(* and reloads of an empty backend leave                                     *)

\* bound on the number of indexes of a selection
MaxSelection == 2

\* the selections of a tree: lists of its items, an item may occur twice
Selections(its) == UNION {[1..k -> DOMAIN its] : k \in 1..MaxSelection}

SelectLists == {<<Song4>>, <<Song1>>, <<Song3>>}

InitSelect ==
  /\ InitWith({<<"AlbumArtist", "AlbumDisc", "None">>}, {TRUE}, {NoFilter})
  /\ reported = NoReport

NextSelect ==
  \/ \E songs \in SelectLists : updates_ = <<>> /\ ~timer_update_ /\ SongsAdded(songs)
  \/ ProcessUpdate
  \/ watchers = <<>> /\ Reset
  \/ Tick
  \/ Reload
  \/ \E i \in 1..Len(watchers) : RunQuery(i)
  \/ \E i \in 1..Len(watchers) : LoadSongsFromSqlFinished(i)
  \/ \E indexes \in Selections(items) :
       updates_ = <<>> /\ timer_reset_ = 0 /\ GetChildSongsCall(indexes)

SpecSelect == InitSelect /\ [][NextSelect]_vars

(* SpecSort: one numeric criterion at level 0; songs whose years, discs,     *)
(* sample rates, bit depths and bit rates have different numbers of digits   *)
(* are added one at a time                                                   *)

\* an old mono recording, a compact disc and a high-resolution file
SongLow ==
  [Song1 EXCEPT !.id = 11, !.year = 800, !.originalyear = 800, !.disc = 1,
                !.samplerate = 8000, !.bitdepth = 8, !.bitrate = 320, !.url = <<117, 97>>]

SongMid ==
  [Song1 EXCEPT !.id = 12, !.year = 1999, !.originalyear = 1999, !.disc = 2,
                !.samplerate = 44100, !.bitdepth = 16, !.bitrate = 1411, !.url = <<117, 98>>]

SongHigh ==
  [Song1 EXCEPT !.id = 13, !.year = 2024, !.originalyear = 2024, !.disc = 10,
                !.samplerate = 192000, !.bitdepth = 24, !.bitrate = 11289,
                !.url = <<117, 99>>]

SortLists == {<<SongLow>>, <<SongMid>>, <<SongHigh>>}

\* the numeric criteria
kNumericGroupBy == {"Year", "OriginalYear", "Disc", "Samplerate", "Bitdepth", "Bitrate"}

InitSort ==
  /\ InitWith({<<g, "None", "None">> : g \in kNumericGroupBy}, BOOLEAN, {NoFilter})
  /\ reported = NoReport

NextSort ==
  \/ \E songs \in SortLists : updates_ = <<>> /\ ~timer_update_ /\ SongsAdded(songs)
  \/ ProcessUpdate

SpecSort == InitSort /\ [][NextSort]_vars

(* SpecLeaf: no grouping, so that the Song leaves are siblings under the     *)
(* root; songs with small, unset and large disc and track numbers are added  *)
(* one at a time                                                             *)

\* the disc numbers and the track numbers of the songs
LeafDiscs == <<-1, 0, 1, 2, 1000>>

LeafTracks == <<-1, 0, 1, 999, 1000>>

\* one song for every disc and track number, each with a URL of its own; the
\* files of the later discs have the smaller URLs
LeafSongs ==
  {[Song1 EXCEPT !.id = 20 + 5 * i + j, !.disc = LeafDiscs[i], !.track = LeafTracks[j],
                 !.url = <<117, 54 - i, 48 + j>>] :
     i \in 1..Len(LeafDiscs), j \in 1..Len(LeafTracks)}

\* bound on the number of songs in the tree
MaxLeaves == 2

InitLeaf ==
  /\ InitWith({<<"None", "None", "None">>}, {TRUE}, {NoFilter})
  /\ reported = NoReport

NextLeaf ==
  \/ \E song \in LeafSongs :
       /\ updates_ = <<>>
       /\ ~timer_update_
       /\ Cardinality(DOMAIN song_nodes_) < MaxLeaves
       /\ SongsAdded(<<song>>)
  \/ ProcessUpdate

SpecLeaf == InitLeaf /\ [][NextLeaf]_vars

(* SpecStore: the backend stores, edits and deletes two songs of one album   *)
(* and reports each change; no reload                                         *)

\* song 1 after it was flagged as part of a compilation
Song1Compilation == [Song1 EXCEPT !.compilation = TRUE]

\* the songs the backend comes to hold
StoreAdds == {Song1, Song4}

\* song 1 after its title was edited to "Aria" and its track number to 5
Song1Track == [Song1 EXCEPT !.title = <<65, 114, 105, 97>>, !.track = 5]

\* the records of song 1 after an edit of its tags
StoreEdits == {Song1, Song1Album, Song1Rating, Song1Compilation, Song1Track}

InitStore ==
  /\ InitWith({<<"AlbumArtist", "AlbumDisc", "None">>}, {TRUE}, {NoFilter})
  /\ reported = NoReport

NextStore ==
  \/ \E song \in StoreAdds : Len(updates_) < MaxQueue /\ BackendAdds(song)
  \/ \E id \in DOMAIN db : Len(updates_) < MaxQueue /\ BackendDeletes(id)
  \/ \E song \in StoreEdits : Len(updates_) < MaxQueue /\ BackendChanges(song)
  \/ ProcessUpdate

SpecStore == InitStore /\ [][NextStore]_vars

(* SpecMime: a view drags selections of up to MaxSelection nodes of the tree, *)
(* the empty selection included                                               *)

MimeLists == {<<Song4>>, <<Song1>>, <<Song3>>}

InitMime ==
  /\ InitWith({<<"AlbumArtist", "AlbumDisc", "None">>}, {TRUE}, {NoFilter})
  /\ reported = NoReport

NextMime ==
  \/ \E songs \in MimeLists : updates_ = <<>> /\ ~timer_update_ /\ SongsAdded(songs)
  \/ ProcessUpdate
  \/ \E indexes \in Selections(items) \cup {<<>>} : updates_ = <<>> /\ MimeDataCall(indexes)

SpecMime == InitMime /\ [][NextMime]_vars

(* SmartPlaylistSearch and its QDataStream operators. Enumerators are their  *)
(* ordinals; an int is a 32-bit two's complement number; the stream is the   *)
(* sequence of the bytes written, most significant byte first.               *)

\* SmartPlaylistSearch::SearchType: And, Or, All
SearchTypes == 0..2
\* SmartPlaylistSearch::SortType: Random, FieldAsc, FieldDesc
SortTypes == 0..2
\* SmartPlaylistSearchTerm::Field, of which Title is the default sort field
Title == 3
Fields == {0, Title}

\* SmartPlaylistSearchTerm is streamed by its own operators: a term stands
\* here for the one byte those write for it
Terms == {7, 9}
TermLists == {<<>>, <<7>>, <<9, 7>>}

\* limits of a search, up to the ends of int
Limits == {-1, 0, 1, 50, 255, 256, 65536, 2147483647, -2147483647 - 1}

\* static_cast<quint8>(x), as QDataStream writes it
Quint8(x) == <<x % 256>>

\* four bytes for the magnitude of x in place of its two's complement
Quint32OfMagnitude(x) ==
  Let(IF x < 0 /\ x > -2147483647 THEN 0 - x ELSE x, LAMBDA y :
    <<(y \div 16777216) % 256, (y \div 65536) % 256, (y \div 256) % 256, y % 256>>)

\* static_cast<quint32>(x), as QDataStream writes it: the four bytes of the
\* two's complement of x
Quint32(x) ==
  <<(x \div 16777216) % 256, (x \div 65536) % 256, (x \div 256) % 256, x % 256>>

\* s >> quint8
ReadQuint8(bytes, pos) == bytes[pos]

\* s >> qint32: the four bytes from pos as a signed number
ReadQint32(bytes, pos) ==
  (IF bytes[pos] >= 128 THEN bytes[pos] - 256 ELSE bytes[pos]) * 16777216
    + bytes[pos + 1] * 65536 + bytes[pos + 2] * 256 + bytes[pos + 3]

\* s << QList<SmartPlaylistSearchTerm>: the count as quint32, then the terms
WriteTerms(terms) == Quint32(Len(terms)) \o terms

\* s >> QList<SmartPlaylistSearchTerm>
ReadTerms(bytes, pos) ==
  Let(ReadQint32(bytes, pos), LAMBDA n : [i \in 1..n |-> bytes[pos + 3 + i]])

\* SmartPlaylistSearch(): Reset()
DefaultSearch ==
  [search_type_ |-> 0, terms_ |-> <<>>, sort_type_ |-> 0, sort_field_ |-> Title,
   limit_ |-> -1, first_item_ |-> 0]

\* SmartPlaylistSearch(type, terms, sort_type, sort_field, limit)
SmartPlaylistSearch(type, terms, sort_type, sort_field, limit) ==
  [search_type_ |-> type, terms_ |-> terms, sort_type_ |-> sort_type,
   sort_field_ |-> sort_field, limit_ |-> limit, first_item_ |-> 0]

\* SmartPlaylistSearch::operator==
SearchEquals(a, b) ==
  /\ a.search_type_ = b.search_type_
  /\ a.terms_ = b.terms_
  /\ a.sort_type_ = b.sort_type_
  /\ a.sort_field_ = b.sort_field_
  /\ a.limit_ = b.limit_

\* operator<<(QDataStream &, const SmartPlaylistSearch &): the bytes appended
StreamOut(search) ==
  WriteTerms(search.terms_) \o Quint8(search.sort_type_) \o Quint8(search.sort_field_)
    \o Quint32(search.limit_) \o Quint8(search.search_type_)

\* operator>>(QDataStream &, SmartPlaylistSearch &): the search after reading
\* the bytes from their start
StreamIn(bytes, search) ==
  Let(ReadTerms(bytes, 1), LAMBDA terms :
  Let(5 + Len(terms), LAMBDA pos :
    [search EXCEPT !.terms_ = terms,
                   !.sort_type_ = ReadQuint8(bytes, pos),
                   !.sort_field_ = ReadQuint8(bytes, pos + 1),
                   !.limit_ = ReadQint32(bytes, pos + 2),
                   !.search_type_ = ReadQuint8(bytes, pos + 6)]))

\* a caller writes a search to an empty stream; the step records the search
\* and the bytes of the stream
WriteSearch(search) ==
  /\ last' = [op |-> "operator<<", type |-> "None", songs |-> <<>>, value |-> search,
              stream |-> StreamOut(search)]
  /\ emitted' = <<>>
  /\ UNCHANGED <<treevars, appvars, confvars, loadvars, updates_, timer_update_, reported>>

\* a caller reads the stream just written into a search it holds; the step
\* records the search written and the search read
ReadSearch(search) ==
  /\ last.op = "operator<<"
  /\ last' = [op |-> "operator>>", type |-> "None", songs |-> <<>>, value |-> last.value,
              stream |-> last.stream, result |-> StreamIn(last.stream, search)]
  /\ emitted' = <<>>
  /\ UNCHANGED <<treevars, appvars, confvars, loadvars, updates_, timer_update_, reported>>

(* SpecStream: searches of every type, sort and limit are written to a data  *)
(* stream and read back                                                       *)

Searches ==
  {SmartPlaylistSearch(type, terms, sort_type, sort_field, limit) :
     type \in SearchTypes, terms \in TermLists, sort_type \in SortTypes,
     sort_field \in Fields, limit \in Limits}

\* the searches a caller reads into: a new one, and one in use
ReadInto == {DefaultSearch, [DefaultSearch EXCEPT !.terms_ = <<7>>, !.limit_ = 50,
                                                  !.first_item_ = 4]}

InitStream ==
  /\ InitWith({<<"AlbumArtist", "AlbumDisc", "None">>}, {TRUE}, {NoFilter})
  /\ reported = NoReport

NextStream ==
  \/ \E search \in Searches : WriteSearch(search)
  \/ \E search \in ReadInto : ReadSearch(search)

SpecStream == InitStream /\ [][NextStream]_vars

----------------------------------------------------------------------------
(* Properties *)

\* the set of the elements of a sequence
Range(seq) == {seq[i] : i \in 1..Len(seq)}

\* the concatenation of a sequence of sequences
RECURSIVE Concat(_)
Concat(seqs) == IF seqs = <<>> THEN <<>> ELSE Head(seqs) \o Concat(Tail(seqs))

\* the strict ancestors of an item
RECURSIVE Ancestors(_, _)
Ancestors(its, id) ==
  IF its[id].parent = NULL THEN {}
  ELSE {its[id].parent} \cup Ancestors(its, its[id].parent)

\* the items of a type
ItemsOfType(its, type) == {n \in DOMAIN its : its[n].type = type}

\* the call is a timer tick that dispatched an update of the type
Dispatched(call, type) == call.op = "ProcessUpdate" /\ call.type = type

\* the songs of every top-level item, one GetChildSongs call per item, in order
Flatten(its, root) ==
  Concat([i \in 1..Len(its[root].children) |-> GetChildSongs(its, <<its[root].children[i]>>)])

\* the tree holds the songs of the list that match the filter, each once, and
\* nothing else
FlattenIsFiltered(its, root, songs) ==
  LET matching == {s \in Range(songs) : Matches(filter_options_, s)}
      leaves == ItemsOfType(its, "Song")
      flat == Flatten(its, root)
  IN /\ Cardinality(leaves) = Cardinality(matching)
     /\ {its[n].metadata : n \in leaves} = matching
     /\ \A n \in leaves : root \in Ancestors(its, n)
     /\ Len(flat) = Cardinality(matching)
     /\ Range(flat) = matching

\* the songs of a list have distinct identifiers
DistinctIds(songs) ==
  \A i, j \in 1..Len(songs) : songs[i].id = songs[j].id => i = j

\* C1: when AddSongs(S), S with distinct identifiers, runs on a tree whose
\* root has no children, under any grouping, the Song leaves below the root
\* and the songs GetChildSongs returns for the top-level items are the songs
\* of S that match the filter, each exactly once, and no other song.
C1_FlattenEqualsFiltered ==
  [][(items[root_].children = <<>> /\ Dispatched(last', "Add") /\ DistinctIds(last'.songs))
       => FlattenIsFiltered(items', root_', last'.songs)]_vars

\* C1 witness: two songs were added under the default grouping with an age
\* filter that one of them fails; only the other has a leaf
C1_Witness ==
  /\ Dispatched(last, "Add")
  /\ last.songs = <<Song1, Song2>>
  /\ filter_options_ = AgeFilter
  /\ group_by_ = <<"AlbumArtist", "AlbumDisc", "None">>
  /\ DOMAIN song_nodes_ = {1}
  /\ Cardinality(ItemsOfType(items, "Container")) = 2

\* the Containers of an album-like level that were made for the album
AlbumContainers(its, album) ==
  {c \in ItemsOfType(its, "Container") :
     /\ its[c].container_level >= 0
     /\ IsAlbumGroupBy(GroupByAt(its[c].container_level))
     /\ its[c].metadata.album = album}

\* the Song leaves below an item
SongsBelow(its, id) == {n \in Subtree(its, id) : its[n].type = "Song"}

Catalogue == {Song1, Song2, Song3}

\* the Container and Divider nodes of a tree: the keys of each per-level
\* table, the parents that have a Various-Artists node, the keys of the
\* divider table, and the Container and Divider items themselves
Shape(m) ==
  [containers |-> [l \in 1..3 |-> DOMAIN m.container_nodes_[l]],
   various |-> {m.items[p].key : p \in {n \in DOMAIN m.items :
                                          m.items[n].compilation_artist_node_ # NULL}},
   dividers |-> DOMAIN m.divider_nodes_,
   container_items |-> {<<m.items[n].container_level, m.items[n].key>> :
                          n \in ItemsOfType(m.items, "Container")},
   divider_items |-> {m.items[n].key : n \in ItemsOfType(m.items, "Divider")}]

\* C3: in every tree state that additions reach, with dividers enabled, for a
\* song s without a Song leaf, AddSongs([s]) followed by RemoveSongs([s])
\* leaves the Container nodes (per-level table keys, Various-Artists nodes)
\* and the Divider nodes that were there before.
C3_AddRemoveRoundTrip ==
  show_dividers_ =>
    \A s \in Catalogue :
      s.id \notin DOMAIN song_nodes_ =>
        Shape(RemoveSongs(AddSongs(Cur, <<s>>), <<s>>)) = Shape(Cur)

\* C4: AddSongs is idempotent.  In the state an Add dispatch of a list L
\* leaves, AddSongs(L) applied again changes no item, no table and emits no
\* signal; and in any state, AddSongs of a song whose identifier already has
\* a Song leaf creates no node and changes no node table.
C4_AddSongsIdempotent ==
  /\ Dispatched(last, "Add") => AddSongs(Cur, last.songs) = Cur
  /\ \A s \in Catalogue \cup {Song1Album} :
       s.id \in DOMAIN song_nodes_ =>
         LET again == AddSongs(Cur, <<s>>)
         IN /\ again.items = items
            /\ again.song_nodes_ = song_nodes_
            /\ again.container_nodes_ = container_nodes_
            /\ again.divider_nodes_ = divider_nodes_
            /\ again.emitted = <<>>

\* C4 witness: two songs were added under Genre / Artist / Album, both have
\* leaves, below five Containers
C4_Witness ==
  /\ Dispatched(last, "Add")
  /\ last.songs = <<Song1, Song2>>
  /\ group_by_ = <<"Genre", "Artist", "Album">>
  /\ DOMAIN song_nodes_ = {1, 2}
  /\ Cardinality(ItemsOfType(items, "Container")) = 5

\* the text before the first space of a text (the whole text without a space)
RECURSIVE BeforeSpace(_)
BeforeSpace(text) ==
  IF text = <<>> \/ Head(text) = 32 THEN <<>> ELSE <<Head(text)>> \o BeforeSpace(Tail(text))

\* the level-0 Containers in the tree that map to a divider key: FinishItem
\* put the key and a space in front of their sort text, or DividerKey gives it now
ContainersOfDivider(its, divider_key) ==
  {c \in ItemsOfType(its, "Container") :
     /\ its[c].container_level = 0
     /\ \/ BeforeSpace(its[c].sort_text) = divider_key
        \/ DividerKey(GroupByAt(0), its[c]) = divider_key}

\* C5: with dividers enabled, after any additions and removals, every Divider
\* under Root has at least one level-0 Container in the tree that maps to its
\* key, under every level-0 criterion.
C5_DividerHasContainer ==
  (show_dividers_ /\ updates_ = <<>>) =>
    \A n \in ItemsOfType(items, "Divider") :
      /\ items[n].parent = root_
      /\ ContainersOfDivider(items, items[n].key) # {}

\* the ancestor of an item at a container level (NULL: none)
AncestorAt(its, id, level) ==
  LET at == {a \in Ancestors(its, id) : its[a].type = "Container" /\ its[a].container_level = level}
  IN IF at = {} THEN NULL ELSE CHOOSE a \in at : TRUE

\* C6: with an artist-like criterion at a level, the ancestor at that level
\* of a compilation song's leaf is the Various-Artists node of that
\* ancestor's parent, the ancestor of any other song's leaf (one tagged
\* "Various artists" included) is not a Various-Artists node, and so no
\* deeper Container holds leaves of both kinds.
C6_CompilationUnderVariousArtists ==
  updates_ = <<>> =>
    \A id \in DOMAIN song_nodes_ : \A level \in 0..2 :
      IsArtistGroupBy(GroupByAt(level)) =>
        LET leaf == song_nodes_[id]
            a == AncestorAt(items, leaf, level)
        IN /\ a # NULL
           /\ is_compilation(items[leaf].metadata) <=> IsCompilationArtistNode(items, a)

\* the number of signals of a kind among the signals a step emitted
CountSignals(signals, sig) == Cardinality({i \in 1..Len(signals) : signals[i].sig = sig})

\* what RemoveSongs(songs) must have made of the tree m: after is its result
CascadeDone(m, after, songs) ==
  LET removed == {m.song_nodes_[id] :
                    id \in {s.id : s \in Range(songs)} \cap DOMAIN m.song_nodes_}
      above == UNION {Ancestors(m.items, n) : n \in removed} \ {m.root_}
      deleted == DOMAIN m.items \ DOMAIN after.items
  IN /\ after.root_ = m.root_ /\ m.root_ \in DOMAIN after.items
     /\ removed \subseteq deleted
     /\ \A c \in above :
          IF c \in deleted
          THEN \A i \in 1..Len(m.items[c].children) : m.items[c].children[i] \in deleted
          ELSE after.items[c].children # <<>>
     /\ \A n \in deleted : n \in removed \/ n \in above \/ m.items[n].type = "Divider"
     /\ \A c \in deleted :
          /\ \A l \in 1..3 : c \notin MapValues(after.container_nodes_[l])
          /\ c \notin MapValues(after.song_nodes_)
          /\ \A n \in DOMAIN after.items : after.items[n].compilation_artist_node_ # c

\* the members of the record are those of the heap of the state, renumbered
SameTree(m, its, songs, containers, dividers) ==
  /\ m.items = its
  /\ m.song_nodes_ = songs
  /\ m.container_nodes_ = containers
  /\ m.divider_nodes_ = dividers

\* C7: when a timer tick dispatches RemoveSongs, every Container above a
\* removed leaf is either deleted, and then everything it held was deleted,
\* or is kept, and then it still has children; Root is kept; nothing but the
\* removed leaves, Containers above them and Dividers is deleted; and no
\* per-level table, no song table entry and no Various-Artists link names a
\* deleted item.
C7_RemoveCascades ==
  [][Dispatched(last', "Remove") =>
       \A after \in {RemoveSongs(Cur, last'.songs)} :
         /\ CascadeDone(Cur, after, last'.songs)
         /\ SameTree(Renumber(after), items', song_nodes_', container_nodes_',
                     divider_nodes_')]_vars

\* C7 witness: under Genre / Artist / Album the removal of song 1 deleted its
\* leaf, its album and its artist (three removals) and stopped at the genre,
\* which still holds song 2
C7_Witness ==
  /\ Dispatched(last, "Remove")
  /\ last.songs = <<Song1>>
  /\ group_by_ = <<"Genre", "Artist", "Album">>
  /\ CountSignals(emitted, "beginRemoveRows") = 3
  /\ DOMAIN song_nodes_ = {2}
  /\ Cardinality(ItemsOfType(items, "Container")) = 3

\* the reported record differs from the stored one in the rating or the
\* play count and in nothing else
OnlyStatsDiffer(song, stored) ==
  /\ song # stored
  /\ [song EXCEPT !.rating = stored.rating, !.playcount = stored.playcount] = stored

\* the signals that insert or remove rows
kStructural == {"beginInsertRows", "endInsertRows", "beginRemoveRows", "endRemoveRows"}

\* a dataChanged signal for the item is among the signals
DataChangedFor(signals, its, id) ==
  \E i \in 1..Len(signals) :
    /\ signals[i].sig = "dataChanged"
    /\ signals[i].parent = its[id].parent
    /\ signals[i].row = Row(its, id)

\* the tracked songs of an update whose record differs from the stored one
\* only in rating and play count
StatsOnly(songs, nodes, its) ==
  {i \in 1..Len(songs) :
     /\ songs[i].id \in DOMAIN nodes
     /\ OnlyStatsDiffer(songs[i], its[nodes[songs[i].id]].metadata)}

\* C8 as stated: processing a change of only the rating or play statistics
\* of a tracked song emits a data-changed notification for its leaf and no
\* insert or remove notification.
C8_StatsChangeEmitsDataChanged ==
  [][(Dispatched(last', "Update") /\ StatsOnly(last'.songs, song_nodes_, items) # {}) =>
       /\ \A i \in StatsOnly(last'.songs, song_nodes_, items) :
            DataChangedFor(emitted', items', song_nodes_'[last'.songs[i].id])
       /\ \A i \in 1..Len(emitted') : emitted'[i].sig \notin kStructural]_vars

\* C8 amended: a SongsChanged report is processed by a ReAddOrUpdate tick that
\* changes nothing in the tree and emits nothing; the Update tick it queues
\* for a tracked song whose rating or play statistics alone differ replaces
\* the record of the leaf and of songs_, leaves every row in place, and emits
\* no insert, no remove and no data-changed notification for that leaf.
C8_StatsChangeIsSilent ==
  [][/\ Dispatched(last', "ReAddOrUpdate") =>
          emitted' = <<>> /\ UNCHANGED treevars
     /\ (Dispatched(last', "Update") /\ StatsOnly(last'.songs, song_nodes_, items) # {}) =>
          /\ \A i \in StatsOnly(last'.songs, song_nodes_, items) :
               LET song == last'.songs[i]
               IN /\ song_nodes_'[song.id] = song_nodes_[song.id]
                  /\ ~DataChangedFor(emitted', items', song_nodes_'[song.id])
                  /\ (\A j \in (i + 1)..Len(last'.songs) : last'.songs[j].id # song.id) =>
                       /\ items'[song_nodes_'[song.id]].metadata = song
                       /\ song.id \in DOMAIN songs_ => songs_'[song.id] = song
          /\ \A i \in 1..Len(emitted') : emitted'[i].sig \notin kStructural
          /\ [n \in DOMAIN items |-> [items[n] EXCEPT !.metadata = DefaultSong]]
               = [n \in DOMAIN items' |-> [items'[n] EXCEPT !.metadata = DefaultSong]]]_vars

\* C8 witness: the Update of song 1 with a new rating and play count was
\* dispatched; the leaf holds the new record and no signal was emitted
C8_Witness ==
  /\ Dispatched(last, "Update")
  /\ last.songs = <<Song1Rating>>
  /\ 1 \in DOMAIN song_nodes_
  /\ items[song_nodes_[1]].metadata = Song1Rating
  /\ songs_[1] = Song1Rating
  /\ emitted = <<>>

\* the entries a step appended to the queue
Appended(before, after) == SubSeq(after, Len(before) + 1, Len(after))

\* C9: a slot that calls ScheduleUpdate with a list of n songs appends to the
\* queue, behind the entries already there, exactly ceil(n / 400) entries of
\* its operation kind (none for n = 0), each of 1 to 400 songs, whose
\* concatenation in queue order is the list; 1000 songs give entries of 400,
\* 400 and 200 songs.
C9_ChunksOf400 ==
  [][last'.op \in {"SongsAdded", "SongsRemoved", "SongsChanged"} =>
       \A added \in {Appended(updates_, updates_')} :
         /\ Len(updates_') >= Len(updates_)
         /\ SubSeq(updates_', 1, Len(updates_)) = updates_
         /\ Len(added) = (Len(last'.songs) + 399) \div 400
         /\ \A i \in 1..Len(added) :
              /\ added[i].type = last'.type
              /\ Len(added[i].songs) >= 1
              /\ Len(added[i].songs) <= 400
         /\ Concat([i \in 1..Len(added) |-> added[i].songs]) = last'.songs
         /\ Len(last'.songs) = 1000 =>
              [i \in 1..Len(added) |-> Len(added[i].songs)] = <<400, 400, 200>>]_vars

\* C9 witness: SongsAdded was called with 1000 songs and the queue ends with
\* Add entries of 400, 400 and 200 songs
C9_Witness ==
  /\ last.op = "SongsAdded"
  /\ Len(last.songs) = 1000
  /\ Len(updates_) >= 3
  /\ \A i \in 0..2 : updates_[Len(updates_) - i].type = "Add"
  /\ Len(updates_[Len(updates_) - 2].songs) = 400
  /\ Len(updates_[Len(updates_) - 1].songs) = 400
  /\ Len(updates_[Len(updates_)].songs) = 200

\* the tree operation an update entry stands for, applied to the tree m
Applied(m, update) ==
  CASE update.type = "Add" -> AddSongs(m, update.songs)
    [] update.type = "Remove" -> RemoveSongs(m, update.songs)
    [] update.type = "Update" -> UpdateSongs(m, update.songs)
    [] OTHER -> m

\* C10: a notification only appends behind the entries already queued and
\* dispatches nothing; a timer tick on an empty queue dispatches nothing; a
\* timer tick on a non-empty queue dispatches the oldest entry, once, and
\* leaves the others queued in their order (ReAddOrUpdate appending behind
\* them the entries it makes).
C10_FifoOnePerTick ==
  [][IF last'.op # "ProcessUpdate"
     THEN /\ SubSeq(updates_', 1, Len(updates_)) = updates_
          /\ \A i \in (Len(updates_) + 1)..Len(updates_') : updates_'[i].type = last'.type
          /\ UNCHANGED treevars
     ELSE IF updates_ = <<>>
     THEN last'.type = "None" /\ updates_' = <<>> /\ UNCHANGED treevars
     ELSE /\ last'.type = updates_[1].type
          /\ last'.songs = updates_[1].songs
          /\ Len(updates_') >= Len(updates_) - 1
          /\ SubSeq(updates_', 1, Len(updates_) - 1) = Tail(updates_)
          /\ updates_[1].type # "ReAddOrUpdate" => updates_' = Tail(updates_)
          /\ \A after \in {Renumber(Applied(Cur, updates_[1]))} :
               /\ SameTree(after, items', song_nodes_', container_nodes_', divider_nodes_')
               /\ songs_' = after.songs_
               /\ emitted' = after.emitted]_vars

\* C10 witness: a tick has dispatched a Remove while an Add queued behind it
\* is still waiting
C10_Witness ==
  /\ Dispatched(last, "Remove")
  /\ Len(updates_) = 1
  /\ updates_[1].type = "Add"
  /\ updates_[1].songs # last.songs
  /\ timer_update_


\* the operations that reach ScheduleReset
kResetCallers ==
  {"Reset", "set_show_dividers", "set_sort_skips_articles", "SetFilterAge", "SetGroupBy"}

\* C11: a reload request made while timer_reset_ is pending leaves the time
\* left on the timer as it is and starts no query; a request that schedules
\* with the timer idle starts it with the full interval; a query is started
\* only by the timer firing when it is due, one query per firing, and the
\* timer is idle afterwards, so the requests of one pending period cause
\* exactly one Reload.
C11_ResetRequestsCoalesce ==
  [][/\ (last'.op \in kResetCallers /\ timer_reset_ > 0) =>
          /\ timer_reset_' = timer_reset_
          /\ watchers' = watchers
          /\ UNCHANGED treevars
     /\ (last'.op \in {"Reset", "SetFilterAge", "SetGroupBy"} /\ timer_reset_ = 0) =>
          /\ timer_reset_' = kResetInterval
          /\ watchers' = watchers
     /\ (Len(watchers') > Len(watchers) \/ last'.op = "Reload") =>
          /\ last'.op = "Reload"
          /\ 0 < timer_reset_ /\ timer_reset_ <= TimeStep
          /\ timer_reset_' = 0
          /\ watchers' = Append(watchers, NewWatcher(filter_options_))]_vars

\* C11 witness: a filter change arrived while the timer had 200 of its 300 ms
\* left (after another request and a clock step), and the timer still has them
C11_Witness ==
  /\ last.op = "SetFilterAge"
  /\ timer_reset_ = kResetInterval - TimeStep
  /\ filter_options_ = AgeFilter


\* C12: at most one reload query is in flight, started and not yet handled by
\* LoadSongsFromSqlFinished
C12_OneQueryInFlight == Len(watchers) <= 1


\* the identifiers of the Song leaves of the tree
LeafIds(its) == {its[n].metadata.id : n \in ItemsOfType(its, "Song")}

\* the identifiers of the songs of the backend that the filter lets through
StoreIds(table, filter) == {id \in DOMAIN table : Matches(filter, table[id])}

\* no reload pending or in flight, and the update queue drained
Quiet == timer_reset_ = 0 /\ watchers = <<>> /\ updates_ = <<>>

\* C13: once no reload is pending or in flight and the update queue has
\* drained, the Song leaves of the tree are the songs of the backend that
\* satisfy the active filter
C13_TreeMatchesStoreWhenQuiet ==
  Quiet => LeafIds(items) = StoreIds(db, filter_options_)


\* C14: between operations the song table names exactly the identifiers of
\* the Song leaves of the tree, each entry points to the leaf that carries its
\* identifier, and no two Song leaves carry the same identifier
C14_SongTableMatchesLeaves ==
  /\ DOMAIN song_nodes_ = LeafIds(items)
  /\ \A id \in DOMAIN song_nodes_ :
       /\ song_nodes_[id] \in ItemsOfType(items, "Song")
       /\ items[song_nodes_[id]].metadata.id = id
  /\ \A a, b \in ItemsOfType(items, "Song") :
       items[a].metadata.id = items[b].metadata.id => a = b

\* C14 witness: the backend holds songs 1 and 2; a reload has cleared the
\* tree and the record table (song 2, which the filter rejects, is no longer
\* in it) and song 1 has been added since: the table points to its new leaf
C14_Witness ==
  /\ last.op = "ProcessUpdate" /\ last.type = "Add"
  /\ DOMAIN db = {1, 2}
  /\ DOMAIN songs_ = {1}
  /\ updates_ = <<>> /\ watchers = <<>> /\ timer_reset_ = 0
  /\ 1 \in DOMAIN song_nodes_
  /\ items[song_nodes_[1]].type = "Song"

\* the grouped levels of the tree: those before the first criterion None
Levels == {i \in 0..2 : \A j \in 0..i : GroupByAt(j) # "None"}

\* two songs have equal grouping values at the levels 0..i
SameValues(a, b, i) ==
  \A j \in 0..i :
    ContainerKey(GroupByAt(j), separate_albums_by_grouping_, a)
      = ContainerKey(GroupByAt(j), separate_albums_by_grouping_, b)

\* C15: in a tree built by additions alone, the leaf of a non-compilation
\* song has a Container at every grouped level, the one at level i being a
\* child of the one at level i - 1 (of Root at level 0), and the leaves of two
\* such songs have the same Container at level i exactly if the songs have
\* equal grouping values at every level 0..i.
C15_SameContainerIffSameValues ==
  \A a, b \in {n \in ItemsOfType(items, "Song") : ~is_compilation(items[n].metadata)} :
    \A i \in Levels :
      /\ AncestorAt(items, a, i) # NULL
      /\ items[AncestorAt(items, a, i)].parent =
           (IF i = 0 THEN root_ ELSE AncestorAt(items, a, i - 1))
      /\ (AncestorAt(items, a, i) = AncestorAt(items, b, i))
           <=> SameValues(items[a].metadata, items[b].metadata, i)


\* the positions in a list of siblings of the level-0 Containers whose sort
\* text FinishItem prefixed with a divider key
PositionsOfKey(its, siblings, divider_key) ==
  {p \in 1..Len(siblings) :
     /\ its[siblings[p]].type = "Container"
     /\ BeforeSpace(its[siblings[p]].sort_text) = divider_key}

\* in a sorted list of siblings each Divider is followed at once by all the
\* Containers of its key, one after the other
DividersLead(its, siblings) ==
  \A p \in 1..Len(siblings) :
    its[siblings[p]].type = "Divider" =>
      \A at \in {PositionsOfKey(its, siblings, its[siblings[p]].key)} :
        at = (p + 1)..(p + Cardinality(at))

\* C16: with dividers enabled, in the order CompareItems gives the children
\* of Root, every Divider sorts immediately before the level-0 Containers of
\* its key, and these are contiguous: no Container of another key and no
\* other Divider lies between them.
C16_DividerLeadsItsContainers ==
  show_dividers_ => DividersLead(items, SortItems(items, items[root_].children))

\* C16 witness: Root has two Dividers, one of them with two Containers, and
\* the children were not created in sorted order
C16_Witness ==
  /\ show_dividers_
  /\ Cardinality({n \in ItemsOfType(items, "Divider") : items[n].parent = root_}) >= 2
  /\ \E d \in ItemsOfType(items, "Divider") :
       Cardinality(PositionsOfKey(items, items[root_].children, items[d].key)) >= 2
  /\ SortItems(items, items[root_].children) # items[root_].children


\* the identifiers named by a list of songs
IdsOf(songs) == {songs[i].id : i \in 1..Len(songs)}

\* C17: a dispatched Update leaves the set of nodes, every node's parent,
\* children, key and texts, the root, the song, Container and Divider tables
\* and the pending-artwork tables as they were, enqueues nothing, and emits
\* no insert or remove notification; only the record stored in the leaf of a
\* tracked song of the batch and the entries of the batch in the record table
\* may differ.
C17_UpdateChangesRecordsOnly ==
  [][Dispatched(last', "Update") =>
       /\ DOMAIN items' = DOMAIN items
       /\ \A n \in DOMAIN items :
            /\ [items'[n] EXCEPT !.metadata = items[n].metadata] = items[n]
            /\ items'[n].metadata # items[n].metadata =>
                 /\ items[n].type = "Song"
                 /\ items[n].metadata.id \in IdsOf(last'.songs)
       /\ UNCHANGED <<root_, song_nodes_, container_nodes_, divider_nodes_, pending_art_,
                      pending_cache_keys_>>
       /\ updates_' = Tail(updates_)
       /\ DOMAIN songs_' = DOMAIN songs_
       /\ \A id \in DOMAIN songs_ : songs_'[id] # songs_[id] => id \in IdsOf(last'.songs)
       /\ \A i \in 1..Len(emitted') : emitted'[i].sig = "dataChanged"]_vars

\* C17 witness: an Update has replaced the record in the leaf of song 1, which
\* sits below Containers
C17_Witness ==
  /\ Dispatched(last, "Update")
  /\ 1 \in DOMAIN song_nodes_
  /\ items[song_nodes_[1]].metadata = Song1Rating
  /\ items[song_nodes_[1]].parent # root_
  /\ songs_[1] = Song1Rating


\* the songs of a batch that have a Song leaf, in the order of the batch
TrackedOf(songs, nodes) == SelectSeq(songs, LAMBDA s : s.id \in DOMAIN nodes)

\* the empty lists ReAddOrUpdate starts with
NoLists == [songs_added |-> <<>>, songs_removed |-> <<>>, songs_updated |-> <<>>]

\* C18: a dispatched Remove, Update or ReAddOrUpdate batch (of distinct songs)
\* leaves the tree, the lookup tables and the notifications exactly as the
\* batch without its songs that have no Song leaf would, wherever those
\* songs stand in the list; and every song of the batch that has a leaf is
\* processed: removed, given the new record, or put on one of the lists
\* ReAddOrUpdate enqueues.
C18_UntrackedSongsAreSkipped ==
  [][/\ (Dispatched(last', "Remove") /\ DistinctIds(last'.songs)) =>
          \A after \in {Renumber(RemoveSongs(Cur, TrackedOf(last'.songs, song_nodes_)))} :
            /\ SameTree(after, items', song_nodes_', container_nodes_', divider_nodes_')
            /\ emitted' = after.emitted
            /\ IdsOf(last'.songs) \cap DOMAIN song_nodes_' = {}
     /\ (Dispatched(last', "Update") /\ DistinctIds(last'.songs)) =>
          \A after \in {Renumber(UpdateSongs(Cur, TrackedOf(last'.songs, song_nodes_)))} :
            /\ SameTree(after, items', song_nodes_', container_nodes_', divider_nodes_')
            /\ emitted' = after.emitted
            /\ \A i \in 1..Len(last'.songs) :
                 last'.songs[i].id \in DOMAIN song_nodes_ =>
                   items'[song_nodes_'[last'.songs[i].id]].metadata = last'.songs[i]
     /\ (Dispatched(last', "ReAddOrUpdate") /\ DistinctIds(last'.songs)) =>
          \A r \in {ReAddOrUpdate(Cur, TrackedOf(last'.songs, song_nodes_), NoLists)} :
            /\ UNCHANGED <<root_, items, song_nodes_, container_nodes_, divider_nodes_>>
            /\ updates_' =
                 ScheduleUpdate(
                   ScheduleUpdate(
                     ScheduleUpdate(Tail(updates_), "Update", r.songs_updated),
                     "Remove", r.songs_removed),
                   "Add", r.songs_added)
            /\ \A i \in 1..Len(last'.songs) :
                 last'.songs[i].id \in DOMAIN song_nodes_ =>
                   last'.songs[i] \in Range(r.songs_updated) \cup Range(r.songs_added)]_vars

\* C18 witness: an Update batch of songs 1 and 3 was dispatched while song 1,
\* first in the list, had no leaf; song 3 after it has a leaf
C18_Witness ==
  /\ Dispatched(last, "Update")
  /\ last.songs = <<Song1, Song3>>
  /\ 1 \notin DOMAIN song_nodes_
  /\ 3 \in DOMAIN song_nodes_
  /\ items[song_nodes_[3]].metadata = Song3


\* QString::toInt reports success: the whole text, surrounding whitespace
\* aside, is an optional sign and decimal digits
ParsesAsInt(text) ==
  LET t == Trimmed(text)
      body == IF t # <<>> /\ (Head(t) = 45 \/ Head(t) = 43) THEN Tail(t) ELSE t
  IN body # <<>> /\ \A i \in 1..Len(body) : IsDigit(body[i])

\* the order the comparison contract describes: numeric when both sort texts
\* parse as integers, the order of the strings otherwise
ContractLess(a, b) ==
  IF ParsesAsInt(a) /\ ParsesAsInt(b) THEN ToInt(a) < ToInt(b) ELSE StrLess(a, b)

\* C19: on the children of every node CompareItems is the order of the
\* comparison contract (numeric when both sort texts parse as integers, by
\* string otherwise), and it orders any two distinct siblings one way and
\* not the other.
C19_CompareItemsContract ==
  \A n \in DOMAIN items :
    \A a, b \in Range(items[n].children) :
      /\ CompareItems(items, a, b) <=> ContractLess(items[a].sort_text, items[b].sort_text)
      /\ a # b => (CompareItems(items, a, b) <=> ~CompareItems(items, b, a))
      /\ ~CompareItems(items, a, a)


\* the Song leaves a selected node contributes: a leaf itself, the leaves
\* below a Container, nothing for any other kind of node
Contributed(its, n) ==
  IF its[n].type = "Song" THEN {n}
  ELSE IF its[n].type = "Container" THEN SongsBelow(its, n)
  ELSE {}

\* the leaves the first k nodes of a selection contribute
ContributedBy(its, sel, k) == UNION {Contributed(its, sel[i]) : i \in 1..k}

\* the place of the song with an identifier in a list that holds it
PositionOfId(songs, id) == CHOOSE k \in 1..Len(songs) : songs[k].id = id

\* C20: the list GetChildSongs returns for a selection of one or two nodes
\* (a node and a descendant or the same node twice included) holds no
\* identifier twice and holds exactly the records of the leaves that the
\* selected Song leaves and Containers contribute, so that the root, a
\* Divider or a loading placeholder adds nothing; and for every Container
\* visited and any two of its children of which the first has the smaller
\* sort text, the songs below the first come before the songs below the
\* second, songs already returned for an earlier selected node aside.
C20_GetChildSongsOnceAndInOrder ==
  last.op = "GetChildSongs" =>
    LET sel == last.indexes
        ret == last.songs
    IN /\ DistinctIds(ret)
       /\ Range(ret) = {items[n].metadata : n \in ContributedBy(items, sel, Len(sel))}
       /\ \A i \in 1..Len(sel) :
            items[sel[i]].type = "Container" =>
              \A c \in Subtree(items, sel[i]) :
                \A a, b \in Range(items[c].children) :
                  StrLess(items[a].sort_text, items[b].sort_text) =>
                    \A sa \in SongsBelow(items, a) \ ContributedBy(items, sel, i - 1) :
                      \A sb \in SongsBelow(items, b) \ ContributedBy(items, sel, i - 1) :
                        PositionOfId(ret, items[sa].metadata.id)
                          < PositionOfId(ret, items[sb].metadata.id)

\* a Container that holds children out of sort order is selected together
\* with one of its descendants or with itself, in a tree that also holds a
\* Divider and the loading placeholder, and two songs or more are returned
C20_Witness ==
  /\ last.op = "GetChildSongs"
  /\ Len(last.indexes) = 2
  /\ items[last.indexes[1]].type = "Container"
  /\ last.indexes[2] \in Subtree(items, last.indexes[1])
  /\ Len(last.songs) >= 2
  /\ ItemsOfType(items, "Divider") # {}
  /\ ItemsOfType(items, "LoadingIndicator") # {}
  /\ \E c \in Subtree(items, last.indexes[1]) :
       \E i, j \in 1..Len(items[c].children) :
         /\ i < j
         /\ StrLess(items[items[c].children[j]].sort_text,
                    items[items[c].children[i]].sort_text)


\* the cache keys the entries of the pending-request table carry
PendingKeys(art) == {art[id].cache_key : id \in DOMAIN art}

\* C21: in every state the set pending_cache_keys_ is the set of the cache
\* keys carried by the entries of pending_art_, and no two entries of
\* pending_art_ carry the same cache key (so AlbumIcon never asked for a key
\* that an entry still carried).
C21_OneRequestPerCacheKey ==
  /\ pending_cache_keys_ = PendingKeys(pending_art_)
  /\ \A a, b \in DOMAIN pending_art_ :
       pending_art_[a].cache_key = pending_art_[b].cache_key => a = b


\* C22: a step in which AlbumCoverLoaded runs for a request identifier that
\* pending_art_ does not hold leaves the tree, the lookup tables, the
\* pending-artwork tables, the pixmap cache and the disk cache as they were
\* and emits no notification.
C22_UnknownCoverIsIgnored ==
  [][(last'.op = "AlbumCoverLoaded" /\ last'.id \notin DOMAIN pending_art_)
       => (UNCHANGED treevars /\ emitted' = <<>>)]_vars

\* a cover was delivered for a request this model had made, with the tree not
\* empty, and nothing was cached: the request's entry had been dropped
C22_Witness ==
  /\ last.op = "AlbumCoverLoaded"
  /\ last.issued
  /\ last.result.success
  /\ ~last.result.image_scaled_isNull
  /\ pixmap_cache = <<>>
  /\ sIconCache = {}
  /\ use_disk_cache_
  /\ ItemsOfType(items, "Container") # {}


\* C27: in every state every entry of pending_art_ targets an item that is in
\* the tree and is a Container.
C27_PendingArtTargetsLiveContainer ==
  \A id \in DOMAIN pending_art_ :
    /\ pending_art_[id].item \in Subtree(items, root_)
    /\ items[pending_art_[id].item].type = "Container"

\* a Remove was dispatched while a cover request was in flight, and the
\* request has no entry any more: its Container was pruned
C27_Witness ==
  /\ last.op = "ProcessUpdate"
  /\ last.type = "Remove"
  /\ album_cover_loader # {}
  /\ pending_art_ = <<>>
  /\ \E sig \in Range(emitted) : sig.sig = "beginRemoveRows"


\* the Containers at or below an item
ContainersBelow(its, id) == {n \in Subtree(its, id) : its[n].type = "Container"}

Drained == updates_ = <<>> /\ ~timer_update_

\* the step just taken was not a notification
NoNotification == last.op \in {"None", "ProcessUpdate"}

\* C24: whenever the queue is not empty the update timer is running; and,
\* the timer firing as long as it runs, if from some point on no notification
\* arrives, then from some point on the queue is empty and the timer stopped,
\* the entries ReAddOrUpdate enqueues included.
C24_QueueDrains ==
  /\ [](updates_ # <<>> => timer_update_)
  /\ (<>[]NoNotification => <>[]Drained)

\* the tick that took the last entry off the queue dispatched a ReAddOrUpdate,
\* which put an Update for its songs on the queue and left the timer running
C24_Witness ==
  /\ last.op = "ProcessUpdate"
  /\ last.type = "ReAddOrUpdate"
  /\ updates_ = <<[type |-> "Update", songs |-> last.songs]>>
  /\ timer_update_


\* C25: whenever no reload query is in flight, no task that Reload started
\* is unfinished.
C25_NoTaskLeftWhenQueriesDone ==
  watchers = <<>> => task_manager = {}


\* the Containers of the tree at a level that are not Various-Artists nodes
PlainContainers(its, level) ==
  {n \in ItemsOfType(its, "Container") :
     its[n].container_level = level /\ ~IsCompilationArtistNode(its, n)}

\* C26: in every state, for each level i the Container table of the level
\* maps the key of every Container of the tree at level i that is not a
\* Various-Artists node to that Container and holds nothing else; the Divider
\* table maps the key of every Divider to that Divider, holds nothing else,
\* and every Divider hangs under the root; and the Various-Artists link of
\* every item is null or one of the item's children.
C26_TablesMatchTree ==
  /\ \A level \in 0..2 :
       /\ MapValues(container_nodes_[level + 1]) = PlainContainers(items, level)
       /\ \A k \in DOMAIN container_nodes_[level + 1] :
            items[container_nodes_[level + 1][k]].key = k
  /\ MapValues(divider_nodes_) = ItemsOfType(items, "Divider")
  /\ \A k \in DOMAIN divider_nodes_ :
       /\ items[divider_nodes_[k]].key = k
       /\ items[divider_nodes_[k]].parent = root_
  /\ \A n \in DOMAIN items :
       \/ items[n].compilation_artist_node_ = NULL
       \/ items[n].compilation_artist_node_ \in Range(items[n].children)
  /\ DOMAIN items = Subtree(items, root_)

\* a Remove was dispatched that pruned a Container while the tree keeps a
\* Various-Artists node, further Containers and a Divider
C26_Witness ==
  /\ last.op = "ProcessUpdate"
  /\ last.type = "Remove"
  /\ CountSignals(emitted, "beginRemoveRows") >= 2
  /\ \E n \in DOMAIN items : items[n].compilation_artist_node_ # NULL
  /\ \E level \in 0..2 : PlainContainers(items, level) # {}
  /\ ItemsOfType(items, "Divider") # {}


\* the key of the Container of a song at a level under the current grouping:
\* the keys of the levels 0..level joined with "-", the key of the
\* Various-Artists node standing for an artist level of a compilation
RECURSIVE CurrentKey(_, _)
CurrentKey(song, level) ==
  LET above == IF level = 0 THEN <<>> ELSE CurrentKey(song, level - 1)
  IN IF IsArtistGroupBy(GroupByAt(level)) /\ is_compilation(song)
     THEN above \o kVariousArtists
     ELSE (IF above # <<>> THEN above \o <<45>> ELSE <<>>)
            \o ContainerKey(GroupByAt(level), separate_albums_by_grouping_, song)

\* every Container of the tree lies at a level the current grouping has, and
\* its key is the key of one of the songs below it under the current grouping
\* (songs whose keys collide share a Container; a Container may be empty)
KeysCurrent ==
  \A c \in ItemsOfType(items, "Container") :
    /\ GroupByAt(items[c].container_level) # "None"
    /\ \/ SongsBelow(items, c) = {}
       \/ \E n \in SongsBelow(items, c) :
            items[c].key = CurrentKey(items[n].metadata, items[c].container_level)

\* C28: every Add, Remove and ReAddOrUpdate is dispatched on a tree whose
\* Containers have the keys of the current grouping, also between SetGroupBy
\* and the reload it schedules.
C28_UpdatesSeeCurrentGrouping ==
  [][(last'.op = "ProcessUpdate" /\ last'.type \in {"Add", "Remove", "ReAddOrUpdate"})
       => KeysCurrent]_vars


\* the tree is a root with one child, the loading item
OnlyLoadingItem ==
  \E l \in DOMAIN items :
    /\ DOMAIN items = {root_, l}
    /\ l # root_
    /\ items[root_].type = "Root"
    /\ items[root_].children = <<l>>
    /\ items[l].type = "LoadingIndicator"
    /\ items[l].parent = root_
    /\ items[l].children = <<>>

\* C29: right after Reload the song table, the three Container tables, the
\* Divider table and both pending artwork tables are empty and the tree is a
\* root with one loading item; with no reload query in flight the tree has no
\* loading item.
C29_ReloadLeavesOnlyLoadingItem ==
  /\ last.op = "Reload" =>
       /\ songs_ = <<>>
       /\ song_nodes_ = <<>>
       /\ container_nodes_ = << <<>>, <<>>, <<>> >>
       /\ divider_nodes_ = <<>>
       /\ pending_art_ = <<>>
       /\ pending_cache_keys_ = {}
       /\ OnlyLoadingItem
  /\ watchers = <<>> => ItemsOfType(items, "LoadingIndicator") = {}

\* C29 witness: Reload has run while the cover loader was still working on a
\* request of the tree that was dropped
C29_Witness ==
  /\ last.op = "Reload"
  /\ album_cover_loader # {}
  /\ Len(watchers) = 1


\* the signal that closes what a signal opens
kClosing ==
  [beginInsertRows |-> "endInsertRows", beginRemoveRows |-> "endRemoveRows",
   modelAboutToBeReset |-> "modelReset"]

\* the signals of a step that open or close a change of the tree
Brackets(signals) ==
  SelectSeq(signals, LAMBDA s : s.sig \in DOMAIN kClosing
                              \/ \E o \in DOMAIN kClosing : s.sig = kClosing[o])

\* the signals come in pairs: every opening signal is followed at once by its
\* closing signal, and the parent and row the opening names are those the
\* closing has
Paired(signals) ==
  /\ Len(signals) % 2 = 0
  /\ \A k \in 1..Len(signals) :
       k % 2 = 1 =>
         /\ signals[k].sig \in DOMAIN kClosing
         /\ signals[k + 1].sig = kClosing[signals[k].sig]
         /\ signals[k + 1].parent = signals[k].parent
         /\ signals[k + 1].row = signals[k].row

\* C30: in every step the insert, remove and reset signals come in matching
\* pairs that are neither nested nor left open, an insert pair names the
\* parent and row the new node has, and outside a reset the tree gains one
\* node per insert pair and loses one per remove pair, so no node comes or
\* goes outside a pair.
C30_ChangesAreBracketed ==
  [][/\ Paired(Brackets(emitted'))
     /\ CountSignals(emitted', "modelReset") = 0 =>
          Cardinality(DOMAIN items') - Cardinality(DOMAIN items)
            = CountSignals(emitted', "beginInsertRows")
                - CountSignals(emitted', "beginRemoveRows")
     /\ CountSignals(emitted', "beginRemoveRows") + CountSignals(emitted', "modelReset") = 0 =>
          \A k \in 1..Len(emitted') :
            emitted'[k].sig = "endInsertRows" =>
              /\ emitted'[k].parent \in DOMAIN items'
              /\ emitted'[k].row < Len(items'[emitted'[k].parent].children)
              /\ \A j \in 1..Len(emitted') :
                   (emitted'[j].sig = "endInsertRows" /\ emitted'[j].parent = emitted'[k].parent
                      /\ emitted'[j].row = emitted'[k].row) => j = k]_vars

\* C30 witness: one AddSongs has built the whole tree, with a level-0
\* Container, its Divider and a Various-Artists node
C30_Witness ==
  /\ last.op = "ProcessUpdate"
  /\ last.type = "Add"
  /\ divider_nodes_ # <<>>
  /\ \E c \in DOMAIN items : items[c].compilation_artist_node_ # NULL
  /\ \E c \in ItemsOfType(items, "Container") :
       items[c].container_level = 0 /\ ~IsCompilationArtistNode(items, c)
  /\ CountSignals(emitted, "beginInsertRows") = Cardinality(DOMAIN items) - 1
  /\ CountSignals(emitted, "endInsertRows") = Cardinality(DOMAIN items) - 1


\* the step is a call of AlbumIcon: data(idx, Qt::DecorationRole) for a
\* Container of an album grouping
AlbumIconStep ==
  /\ last'.op = "data"
  /\ last'.type = "DecorationRole"
  /\ use_pretty_covers_
  /\ items[last'.idx].type = "Container"
  /\ IsAlbumGroupBy(GroupByAt(items[last'.idx].container_level))

\* C31: when a load of this model ends in a failure or without an image, the
\* placeholder is cached under the key of the request and the key is not
\* pending any more; and an AlbumIcon call for a key that holds the cached
\* placeholder returns it, asks the loader for nothing and registers nothing.
C31_FailedLoadIsNotRetried ==
  [][/\ (/\ last'.op = "AlbumCoverLoaded"
         /\ last'.id \in DOMAIN pending_art_
         /\ (~last'.result.success \/ last'.result.image_scaled_isNull))
        => LET cache_key == pending_art_[last'.id].cache_key
           IN /\ cache_key \in DOMAIN pixmap_cache'
              /\ pixmap_cache'[cache_key] = "no_cover_icon_"
              /\ cache_key \notin pending_cache_keys_'
     /\ AlbumIconStep
        => LET cache_key == AlbumIconPixmapCacheKey(Cur, last'.idx)
           IN (cache_key \in DOMAIN pixmap_cache /\ pixmap_cache[cache_key] = "no_cover_icon_")
                => /\ last'.value = "no_cover_icon_"
                   /\ album_cover_loader' = album_cover_loader
                   /\ pending_art_' = pending_art_
                   /\ pending_cache_keys_' = pending_cache_keys_
                   /\ pixmap_cache' = pixmap_cache]_vars

\* C31 witness: the view asked for the icon of an album whose load had failed
\* and got the cached placeholder, with songs below the album and no request
\* for it in flight
C31_Witness ==
  /\ last.op = "data"
  /\ last.type = "DecorationRole"
  /\ last.value = "no_cover_icon_"
  /\ last.idx \in ItemsOfType(items, "Container")
  /\ SongsBelow(items, last.idx) # {}
  /\ AlbumIconPixmapCacheKey(Cur, last.idx) \in DOMAIN pixmap_cache
  /\ pixmap_cache[AlbumIconPixmapCacheKey(Cur, last.idx)] = "no_cover_icon_"
  /\ album_cover_loader = {}
  /\ pending_art_ = <<>>


\* the number a numeric criterion groups a song by
NumericValue(group_by, s) ==
  CASE group_by = "Year" -> Max(0, s.year)
    [] group_by = "OriginalYear" -> Max(0, effective_originalyear(s))
    [] group_by = "Disc" -> Max(0, s.disc)
    [] group_by = "Samplerate" -> Max(0, s.samplerate)
    [] group_by = "Bitdepth" -> Max(0, s.bitdepth)
    [] group_by = "Bitrate" -> Max(0, s.bitrate)

\* the number of the songs below a Container of a numeric criterion
ValueOf(c) ==
  NumericValue(GroupByAt(items[c].container_level),
               items[CHOOSE n \in SongsBelow(items, c) : TRUE].metadata)

\* sibling Containers of the numeric criteria compare as their numbers do
NumericOrder(criteria) ==
  \A a, b \in ItemsOfType(items, "Container") :
    (/\ items[a].parent = items[b].parent
     /\ GroupByAt(items[a].container_level) \in criteria
     /\ SongsBelow(items, a) # {}
     /\ SongsBelow(items, b) # {}
     /\ ValueOf(a) < ValueOf(b))
      => CompareItems(items, a, b)

\* C32: two sibling Containers of a numeric criterion whose numbers are a < b
\* have sort texts that CompareItems orders as a before b.
C32_NumericSortTextOrder == NumericOrder(kNumericGroupBy)

\* the same for the criteria whose numbers have at most four digits
C32_ShortNumbersOrder == NumericOrder({"Year", "OriginalYear", "Disc", "Bitdepth"})


\* the text is six decimal digits
IsSixDigits(text) == Len(text) = 6 /\ \A i \in 1..6 : IsDigit(text[i])

\* the order by (disc, track), a negative number counting as 0
DiscTrackLess(s, t) ==
  \/ Max(0, s.disc) < Max(0, t.disc)
  \/ Max(0, s.disc) = Max(0, t.disc) /\ Max(0, s.track) < Max(0, t.track)

\* the sort texts of the Song leaves whose disc and track numbers are below
\* the limits: six digits of disc * 1000 + track and then the URL, different
\* for different URLs, and ordered as (disc, track)
SongSortTexts(discs, tracks) ==
  \A a, b \in ItemsOfType(items, "Song") :
    LET s == items[a].metadata
        t == items[b].metadata
    IN (s.disc < discs /\ t.disc < discs /\ s.track < tracks /\ t.track < tracks) =>
         /\ Len(items[a].sort_text) >= 6
         /\ IsSixDigits(SubSeq(items[a].sort_text, 1, 6))
         /\ DigitsValue(SubSeq(items[a].sort_text, 1, 6)) = Max(0, s.disc) * 1000 + Max(0, s.track)
         /\ items[a].sort_text = SubSeq(items[a].sort_text, 1, 6) \o s.url
         /\ s.url # t.url => items[a].sort_text # items[b].sort_text
         /\ (items[a].parent = items[b].parent /\ DiscTrackLess(s, t))
              => CompareItems(items, a, b)

\* C33: the sort text of every Song leaf is a six-digit prefix equal to
\* disc * 1000 + track followed by the URL, leaves with different URLs have
\* different sort texts, and sibling leaves compare as their (disc, track) do,
\* for every disc and track number.
C33_SongSortTextOrder == SongSortTexts(1001, 1001)

\* the same for disc and track numbers below 1000
C33_SmallNumbersOrder == SongSortTexts(1000, 1000)


\* C34: once the update queue has drained, the tree has no Song leaf for a
\* song the backend reported as removed and did not report as added again,
\* whatever change of the song it had reported before the removal.
C34_RemovedSongStaysRemoved ==
  updates_ = <<>> => LeafIds(items) \subseteq DOMAIN db


\* C35: whenever the update queue is empty and no reload is pending or in
\* flight, the ancestor at every level of the grouping of a Song leaf (of a
\* song that is not a compilation) is a Container with the key of the leaf's
\* stored record at that level.
C35_LeafUnderKeysOfItsRecord ==
  Quiet =>
    \A n \in ItemsOfType(items, "Song") :
      ~is_compilation(items[n].metadata) =>
        \A level \in 0..2 :
          GroupByAt(level) # "None" =>
            /\ AncestorAt(items, n, level) # NULL
            /\ items[AncestorAt(items, n, level)].key = CurrentKey(items[n].metadata, level)


\* C36: with an artist-like criterion at level 0, once the queue has drained
\* after the backend reported a stored song with a changed compilation flag,
\* the leaf of a song whose record is a compilation lies under the
\* Various-Artists node and the leaf of a song whose record is not lies under
\* a Container of its artist.
C36_CompilationFlagRelocates ==
  (updates_ = <<>> /\ IsArtistGroupBy(GroupByAt(0))) =>
    \A id \in DOMAIN song_nodes_ :
      id \in DOMAIN db =>
        LET leaf == song_nodes_[id]
            a == AncestorAt(items, leaf, 0)
        IN /\ a # NULL
           /\ is_compilation(db[id]) => IsCompilationArtistNode(items, a)
           /\ ~is_compilation(db[id]) =>
                /\ ~IsCompilationArtistNode(items, a)
                /\ items[a].key = ContainerKey(GroupByAt(0), separate_albums_by_grouping_, db[id])


\* C37: between the operations every Container of the tree, and so every
\* Container the per-level tables name, has at least one child.
C37_NoEmptyContainer ==
  /\ \A c \in ItemsOfType(items, "Container") : items[c].children # <<>>
  /\ \A level \in 1..3 : \A c \in MapValues(container_nodes_[level]) :
       c \in DOMAIN items /\ items[c].children # <<>>


\* C38: at every state the display text and the sort text of every Song leaf
\* are those of the record the leaf holds, and sibling leaves compare as the
\* (disc, track) of their records do.
C38_LeafTextsFollowRecord ==
  \A n \in ItemsOfType(items, "Song") :
    /\ items[n].display_text = TitleWithCompilationArtist(items[n].metadata)
    /\ items[n].sort_text = SortTextForSong(items[n].metadata)
    /\ \A o \in ItemsOfType(items, "Song") :
         (items[o].parent = items[n].parent
            /\ DiscTrackLess(items[n].metadata, items[o].metadata))
           => CompareItems(items, n, o)


\* the URLs of the songs of a list, in the order of the list
UrlsOf(songs) == [i \in 1..Len(songs) |-> songs[i].url]

\* C39: the URL list of the object mimeData returns holds one URL per song of
\* its song list, in the same order, for every selection of up to
\* MaxSelection nodes.
C39_OneUrlPerSong ==
  (last.op = "mimeData" /\ last.value # <<>>) =>
    last.value[1].urls = UrlsOf(last.value[1].songs)

\* the same for selections in which no node is selected twice and no selected
\* node lies below another
C39_DisjointSelection ==
  (/\ last.op = "mimeData"
   /\ last.value # <<>>
   /\ \A i, j \in 1..Len(last.indexes) :
        i # j => Subtree(items, last.indexes[i]) \cap Subtree(items, last.indexes[j]) = {})
    => last.value[1].urls = UrlsOf(last.value[1].songs)


\* C40: a search written to a data stream and read back equals the search
\* written under operator==, for every limit of Limits, -1 included, whatever
\* the search read into held before.
C40_StreamRoundTrip ==
  last.op = "operator>>" => SearchEquals(last.result, last.value)

\* a search of limit -1 with two terms was written as four bytes 255 and read
\* back into a search that held another limit and another term
C40_Witness ==
  /\ last.op = "operator>>"
  /\ last.value.limit_ = -1
  /\ last.value.terms_ = <<9, 7>>
  /\ last.stream = <<0, 0, 0, 2, 9, 7, 1, 3, 255, 255, 255, 255, 2>>
  /\ last.result.limit_ = -1
  /\ last.result.first_item_ = 4

=============================================================================
